---------------------------- MODULE Spec2Model ----------------------------
(***************************************************************************)
(* A model of the navigation core of RoBart: the occupancy map, its        *)
(* world <-> cell mapping, the depth-frame count update, the line-of-sight *)
(* traversal and the footprint-aware path search.                          *)
(*                                                                         *)
(* Numbers.  World lengths are integers counted in a fixed length unit,    *)
(* a power-of-two fraction of a metre.  A fractional cell index f is held  *)
(* as the integer 2 * cellSide * f (the clamp limits -0.5 and N - 0.5 are  *)
(* then integers).  A float result is rounded to the 24-bit significand of *)
(* binary32 by float32; on the small multiples of the unit that most       *)
(* inputs are, the rounding changes nothing and the arithmetic is exact.   *)
(* The cell side is a power of two units wherever rounding matters, so     *)
(* that the division by it is exact.  Cell values (counts, occupancy) are  *)
(* small non-negative integers.                                            *)
(***************************************************************************)
EXTENDS Integers, Sequences, FiniteSets, TLC

VARIABLES
    occupancy,  \* the OccupancyMap the operation under study acts on
    counts,     \* a second OccupancyMap (the one passed as `counts`)
    call,       \* the operation being performed and its arguments
    ret,        \* what the operation returned
    pc,         \* "ready": the call has not run yet; "done": it has returned
    memory,     \* the arrays behind shared_ptr<float[]>, by address; used
                \* where two maps hold the same pointer, else empty
    task        \* the cooperative_task object, where there is one

vars == <<occupancy, counts, call, ret, pc, memory, task>>

(***************************************************************************)
(* Arithmetic helpers of <algorithm> and <cmath>.                          *)
(***************************************************************************)
Min(a, b) == IF a <= b THEN a ELSE b

Max(a, b) == IF a >= b THEN a ELSE b

\* floor(n / d) for d > 0
Floor(n, d) == n \div d

\* static float sign(float value)
sign(value) == (IF value > 0 THEN 1 ELSE 0) - (IF value < 0 THEN 1 ELSE 0)

simd_make_float3(x, y, z) == [x |-> x, y |-> y, z |-> z]

Abs(n) == IF n < 0 THEN -n ELSE n

\* The spacing of the binary32 values around a >= 0: the least power of two
\* u >= 1 unit with a < 2^24 * u.
RECURSIVE ulpOf(_, _)
ulpOf(a, u) == IF a \div u < 2^24 THEN u ELSE ulpOf(a, 2 * u)

\* The result of a float operation whose exact value is k: k rounded to a
\* 24-bit significand, ties to the even significand.
float32(k) ==
    LET a == Abs(k)
        u == ulpOf(a, 1)
        lo == (a \div u) * u
        up == IF 2 * (a - lo) > u \/ (2 * (a - lo) = u /\ (a \div u) % 2 = 1)
              THEN lo + u ELSE lo
    IN  IF k < 0 THEN -up ELSE up

(***************************************************************************)
(* OccupancyMap: cells, indices and storage.                               *)
(***************************************************************************)
CellIndices(cellX, cellZ) == [cellX |-> cellX, cellZ |-> cellZ]

FractionalCellIndices(cellX, cellZ) == [cellX |-> cellX, cellZ |-> cellZ]

numCells(m) == m.cellsWide * m.cellsDeep

\* size_t linearIndex(size_t cellX, size_t cellZ): both indices saturate at the
\* last column / row, and the row stride is _cellsDeep.
linearIndex(m, cellX, cellZ) ==
    Min(cellZ, m.cellsDeep - 1) * m.cellsDeep + Min(cellX, m.cellsWide - 1)

\* The words linearIndex can address: the numCells() words of the allocation
\* and, when the map is deeper than wide, the words that follow it.
StorageLen(m) ==
    Max(numCells(m), (m.cellsDeep - 1) * m.cellsDeep + m.cellsWide)

Cells(m) ==
    {CellIndices(x, z) : x \in 0..(m.cellsWide - 1), z \in 0..(m.cellsDeep - 1)}

\* float at(size_t cellX, size_t cellZ) / float at(CellIndices cell)
at(m, cellX, cellZ) == m.occupancy[linearIndex(m, cellX, cellZ)]

atCell(m, cell) == at(m, cell.cellX, cell.cellZ)

\* n / 2 truncated instead of rounded
RoundHalfDown(n) == n \div 2

\* round(float(n) * 0.5): halves round away from zero
RoundHalf(n) == (n + 1) \div 2

centerCell(m) == CellIndices(RoundHalf(m.cellsWide), RoundHalf(m.cellsDeep))

centerIndex(m) == LET c == centerCell(m) IN linearIndex(m, c.cellX, c.cellZ)

\* float x = start; then x += cellSide once per cell passed
RECURSIVE stepAlong(_, _, _)
stepAlong(x, cellSide, n) ==
    IF n = 0 THEN x ELSE stepAlong(float32(x + cellSide), cellSide, n - 1)

\* The coordinate the constructor computes for index i of an axis whose centre
\* cell has index c.
cellCoordinate(centre, cellSide, c, i) ==
    stepAlong(float32(centre - float32(cellSide * c)), cellSide, i)

\* The constructor's loop over (zi, xi) writes _worldPosition[linearIndex(xi, zi)]
\* in row order, so a word that several cells share keeps the position of the
\* last of them; a word no cell maps to keeps its value-initialised zero.
WorldPositions(m, centerPoint) ==
    LET center == centerCell(m)
        writers(i) == {c \in Cells(m) : linearIndex(m, c.cellX, c.cellZ) = i}
        last(S) == CHOOSE c \in S : \A d \in S :
                       \/ d.cellZ < c.cellZ
                       \/ (d.cellZ = c.cellZ /\ d.cellX <= c.cellX)
    IN  [i \in 0..(StorageLen(m) - 1) |->
            IF writers(i) = {}
            THEN simd_make_float3(0, 0, 0)
            ELSE LET c == last(writers(i))
                 IN  simd_make_float3(
                         cellCoordinate(centerPoint.x, m.cellSide, center.cellX, c.cellX),
                         0,
                         cellCoordinate(centerPoint.z, m.cellSide, center.cellZ, c.cellZ))]

\* OccupancyMap::OccupancyMap(width, depth, cellSide, centerPoint);
\* requires cellSide <= width and cellSide <= depth (the two asserts).
OccupancyMap(width, depth, cellSide, centerPoint) ==
    LET dims == [cellSide |-> cellSide,
                 cellsWide |-> Floor(width, cellSide),
                 cellsDeep |-> Floor(depth, cellSide)]
    IN  [width |-> width,
         depth |-> depth,
         cellSide |-> cellSide,
         cellsWide |-> dims.cellsWide,
         cellsDeep |-> dims.cellsDeep,
         centerPoint |-> centerPoint,
         occupancy |-> [i \in 0..(StorageLen(dims) - 1) |-> 0],
         worldPosition |-> WorldPositions(dims, centerPoint)]

\* positionToCell without the + 0.5 before floor
positionToCellTruncating(m, position) ==
    LET center == centerCell(m)
        gridCenterPoint == m.worldPosition[centerIndex(m)]
        xi == Floor(position.x - gridCenterPoint.x, m.cellSide) + center.cellX
        zi == Floor(position.z - gridCenterPoint.z, m.cellSide) + center.cellZ
    IN  CellIndices(Min(Max(0, xi), m.cellsWide - 1), Min(Max(0, zi), m.cellsDeep - 1))

\* CellIndices positionToCell(simd_float3 position): the float quotient
\* (position - gridCenterPoint) / _cellSide is widened to double by the
\* literal 0.5, so the sum and the floor are exact.
positionToCell(m, position) ==
    LET center == centerCell(m)
        gridCenterPoint == m.worldPosition[centerIndex(m)]
        xq == 2 * float32(position.x - gridCenterPoint.x)
        zq == 2 * float32(position.z - gridCenterPoint.z)
        xi == Floor(xq + m.cellSide, 2 * m.cellSide) + center.cellX
        zi == Floor(zq + m.cellSide, 2 * m.cellSide) + center.cellZ
        uxi == Min(Max(0, xi), m.cellsWide - 1)
        uzi == Min(Max(0, zi), m.cellsDeep - 1)
    IN  CellIndices(uxi, uzi)

\* FractionalCellIndices positionToFractionalIndices(simd_float3 position);
\* the components returned are 2 * cellSide times the fractional indices.
\* The sum of the float quotient and the centre index is a float.
positionToFractionalIndices(m, position) ==
    LET center == centerCell(m)
        gridCenterPoint == m.worldPosition[centerIndex(m)]
        xq == 2 * float32(position.x - gridCenterPoint.x)
        zq == 2 * float32(position.z - gridCenterPoint.z)
        xf == float32(xq + 2 * m.cellSide * center.cellX)
        zf == float32(zq + 2 * m.cellSide * center.cellZ)
        cxf == Min(Max(-m.cellSide, xf), 2 * m.cellSide * (m.cellsWide - 1) + m.cellSide)
        czf == Min(Max(-m.cellSide, zf), 2 * m.cellSide * (m.cellsDeep - 1) + m.cellSide)
    IN  FractionalCellIndices(cxf, czf)

(***************************************************************************)
(* Depth frames.  A CVPixelBuffer of depth values is held as               *)
(* [width, height, bytesPerRow, base], base being the floats of the buffer *)
(* in memory order, row padding included.  A 4 x 4 matrix is the tuple of  *)
(* its four columns, a 3 x 3 matrix the tuple of its three.                *)
(***************************************************************************)
simd_make_float2(x, y) == [x |-> x, y |-> y]

simd_make_float4(x, y, z, w) == [x |-> x, y |-> y, z |-> z, w |-> w]

\* simd_mul(simd_float4x4, simd_float4)
simd_mul_float4(m, v) ==
    simd_make_float4(
        m[1].x * v.x + m[2].x * v.y + m[3].x * v.z + m[4].x * v.w,
        m[1].y * v.x + m[2].y * v.y + m[3].y * v.z + m[4].y * v.w,
        m[1].z * v.x + m[2].z * v.y + m[3].z * v.z + m[4].z * v.w,
        m[1].w * v.x + m[2].w * v.y + m[3].w * v.z + m[4].w * v.w)

\* simd_mul(simd_float4x4, simd_float4x4)
simd_mul(a, b) == [j \in 1..4 |-> simd_mul_float4(a, b[j])]

rotateDepthToARKit ==
    <<simd_make_float4(1, 0, 0, 0), simd_make_float4(0, -1, 0, 0),
      simd_make_float4(0, 0, -1, 0), simd_make_float4(0, 0, 0, 1)>>

\* size_t offsetToNextLine = bytesPerRow / sizeof(float) - depthWidth
offsetToNextLine(depthMap) == depthMap.bytesPerRow \div 4 - depthMap.width

\* The world position of pixel (x, y) with depth value `depth`.  With
\* scale = depthResolution / rgbResolution, invF = (1 / scale) * (1 / fx, 1 / fy)
\* and c = scale * (cx, cy), the camera-space x is
\* (x - c.x) * (depth * invF.x) = (x * rgbResolution.x - depthWidth * cx) * depth
\* / (depthWidth * fx), and likewise y; the frames of the model make the
\* division exact.
worldPos(depthMap, intrinsics, rgbResolution, viewMatrix, x, y, depth) ==
    LET fx == intrinsics[1].x
        fy == intrinsics[2].y
        cx == intrinsics[3].x
        cy == intrinsics[3].y
        cameraSpacePosX == Floor((x * rgbResolution.x - depthMap.width * cx) * depth,
                                 depthMap.width * fx)
        cameraSpacePosY == Floor((y * rgbResolution.y - depthMap.height * cy) * depth,
                                 depthMap.height * fy)
        cameraSpacePos == simd_make_float4(cameraSpacePosX, cameraSpacePosY, depth, 1)
        cameraToWorld == simd_mul(viewMatrix, rotateDepthToARKit)
        worldPos4 == simd_mul_float4(cameraToWorld, cameraSpacePos)
    IN  simd_make_float3(worldPos4.x, worldPos4.y, worldPos4.z)

\* if (depth < minDepth || depth > maxDepth) continue;
passesDepthGate(a, depth) == ~(depth < a.minDepth \/ depth > a.maxDepth)

\* if (worldPos.y < minHeight || worldPos.y > maxHeight) continue;
passesHeightGate(a, position) == ~(position.y < a.minHeight \/ position.y > a.maxHeight)

\* The rest of the pixel loops from pixel (x, y) on, with depthValues at word
\* p of the buffer and occ the cell values so far.  The record a holds the
\* arguments of updateCellCounts.
RECURSIVE pixelLoop(_, _, _, _, _, _)
pixelLoop(m, a, x, y, p, occ) ==
    IF y >= a.depthMap.height THEN occ
    ELSE IF x >= a.depthMap.width
    THEN pixelLoop(m, a, 0, y + 1, p + offsetToNextLine(a.depthMap), occ)
    ELSE LET depth == a.depthMap.base[p]
             position == worldPos(a.depthMap, a.intrinsics, a.rgbResolution,
                                  a.viewMatrix, x, y, depth)
             cell == positionToCell(m, position)
             idx == linearIndex(m, cell.cellX, cell.cellZ)
         IN  IF passesDepthGate(a, depth) /\ passesHeightGate(a, position)
             THEN pixelLoop(m, a, x + 1, y, p + 1,
                            [occ EXCEPT ![idx] = float32(@ + 1 * a.incomingSampleWeight)])
             ELSE pixelLoop(m, a, x + 1, y, p + 1, occ)

\* void updateCellCounts(depthMap, intrinsics, rgbResolution, viewMatrix,
\* minDepth, maxDepth, minHeight, maxHeight, incomingSampleWeight,
\* previousWeight), its arguments in the record a: the first numCells() words
\* are decayed, then the pixels are counted.
updateCellCounts(m, a) ==
    LET decayed == [i \in DOMAIN m.occupancy |->
                       IF i < numCells(m)
                       THEN float32(m.occupancy[i] * a.previousWeight)
                       ELSE m.occupancy[i]]
    IN  [m EXCEPT !.occupancy = pixelLoop(m, a, 0, 0, 0, decayed)]

\* updateOccupancyFromCounts assigning every cell: 1 at or above the
\* threshold, 0 below it
updateOccupancyReplacing(m, countsMap, thresholdAmount) ==
    [m EXCEPT !.occupancy =
        [i \in DOMAIN m.occupancy |->
            IF countsMap.occupancy[i] >= thresholdAmount THEN 1 ELSE 0]]

\* void updateOccupancyFromCounts(const OccupancyMap &counts, float thresholdAmount);
\* requires counts.numCells() == numCells() (the assert).
updateOccupancyFromCounts(m, countsMap, thresholdAmount) ==
    [m EXCEPT !.occupancy =
        [i \in DOMAIN m.occupancy |->
            IF i < numCells(countsMap) /\ countsMap.occupancy[i] >= thresholdAmount
            THEN 1 ELSE m.occupancy[i]]]

(***************************************************************************)
(* Line of sight.  The values of t are floats that may be infinite or NaN  *)
(* (a division by a zero direction component): a float is held as          *)
(* [k |-> "num", n |-> numerator, d |-> denominator > 0], or with k one of *)
(* "pinf", "ninf", "nan".                                                  *)
(***************************************************************************)
Num(n, d) == [k |-> "num", n |-> n, d |-> d]

NaN == [k |-> "nan", n |-> 0, d |-> 1]

Inf(s) == [k |-> IF s > 0 THEN "pinf" ELSE "ninf", n |-> 0, d |-> 1]

\* float n / float d
FloatDiv(n, d) ==
    IF d = 0 THEN (IF n = 0 THEN NaN ELSE Inf(n))
    ELSE IF d > 0 THEN Num(n, d) ELSE Num(-n, -d)

\* float a + float b
FloatAdd(a, b) ==
    IF a.k = "nan" \/ b.k = "nan" THEN NaN
    ELSE IF a.k = "num" /\ b.k = "num"
         THEN IF a.d = b.d THEN Num(a.n + b.n, a.d)
                           ELSE Num(a.n * b.d + b.n * a.d, a.d * b.d)
    ELSE IF a.k = "num" THEN b
    ELSE IF b.k = "num" THEN a
    ELSE IF a.k = b.k THEN a ELSE NaN

\* float a < float b
FloatLess(a, b) ==
    IF a.k = "nan" \/ b.k = "nan" THEN FALSE
    ELSE IF a.k = "num" /\ b.k = "num" THEN a.n * b.d < b.n * a.d
    ELSE IF a.k = "pinf" \/ b.k = "ninf" THEN FALSE
    ELSE a.k # b.k

\* at(x, z) with int arguments: a negative int converts to a size_t beyond
\* every index, which linearIndex saturates to the last column / row.
atInt(m, x, z) ==
    at(m, IF x < 0 THEN m.cellsWide ELSE x, IF z < 0 THEN m.cellsDeep ELSE z)

\* The loop going on until both indices are at their sentinels
traversalContinuesEither(x, z, xEnd, zEnd) == x # xEnd \/ z # zEnd

\* `x != xEnd && z != zEnd`, the condition of the do-while loop
traversalContinues(x, z, xEnd, zEnd) == x # xEnd /\ z # zEnd

\* The do-while loop of isLineUnobstructed from the state s on; `visited`
\* collects the cells read, in order.
RECURSIVE traverseRay(_, _)
traverseRay(m, s) ==
    LET visited == Append(s.visited, <<s.x, s.z>>)
        isOccupied == atInt(m, s.x, s.z) # 0
        alongX == FloatLess(s.tMaxX, s.tMaxZ)
        s2 == IF alongX
              THEN [s EXCEPT !.x = s.x + s.stepX,
                             !.tMaxX = FloatAdd(s.tMaxX, s.tDeltaX),
                             !.visited = visited]
              ELSE [s EXCEPT !.z = s.z + s.stepZ,
                             !.tMaxZ = FloatAdd(s.tMaxZ, s.tDeltaZ),
                             !.visited = visited]
    IN  IF isOccupied
        THEN [result |-> FALSE, visited |-> visited]
        ELSE IF traversalContinues(s2.x, s2.z, s.xEnd, s.zEnd)
             THEN traverseRay(m, s2)
             ELSE [result |-> TRUE, visited |-> visited]

\* The locals of isLineUnobstructed when its loop is entered.  Fractional
\* indices are scaled by 2 * cellSide, which cancels in every quotient.
rayStart(m, from, to) ==
    LET fromCell == positionToFractionalIndices(m, from)
        toCell == positionToFractionalIndices(m, to)
        one == 2 * m.cellSide
        half == m.cellSide
        ux == fromCell.cellX
        uz == fromCell.cellZ
        vx == toCell.cellX - ux
        vz == toCell.cellZ - uz
        x == Floor(ux + half, one)
        z == Floor(uz + half, one)
        stepX == sign(vx)
        stepZ == sign(vz)
    IN  [x |-> x, z |-> z, stepX |-> stepX, stepZ |-> stepZ,
         xEnd |-> Floor(toCell.cellX + half, one) + stepX,
         zEnd |-> Floor(toCell.cellZ + half, one) + stepZ,
         tMaxX |-> FloatDiv((one * x + half * stepX) - ux, vx),
         tMaxZ |-> FloatDiv((one * z + half * stepZ) - uz, vz),
         tDeltaX |-> FloatDiv(one * stepX, vx),
         tDeltaZ |-> FloatDiv(one * stepZ, vz),
         visited |-> <<>>]

\* The traversal isLineUnobstructed performs: its result and the cells it read.
lineTraversal(m, from, to) == traverseRay(m, rayStart(m, from, to))

\* bool OccupancyMap::isLineUnobstructed(simd_float3 from, simd_float3 to)
isLineUnobstructed(m, from, to) == lineTraversal(m, from, to).result

(***************************************************************************)
(* FindPath.cpp                                                            *)
(***************************************************************************)
\* static size_t computeFootprintSideLengthInCells(occupancy, robotRadius)
computeFootprintSideLengthInCells(m, robotRadius) ==
    IF m.cellsWide * m.cellsDeep <= 1
    THEN 1
    ELSE LET center == positionToCell(m, m.centerPoint)
             limit == positionToCell(m,
                          simd_make_float3(m.centerPoint.x + robotRadius,
                                           m.centerPoint.y, m.centerPoint.z))
             cellsOut == limit.cellX - center.cellX
         IN  1 + 2 * cellsOut

\* isCellSafe looking at the centre cell alone (the footprint is ignored)
isCellSafeCentreOnly(m, cell, robotFootprintSideLength) ==
    at(m, cell.cellX, cell.cellZ) = 0

\* static bool isCellSafe(occupancy, cell, robotFootprintSideLength)
isCellSafe(m, cell, robotFootprintSideLength) ==
    LET delta == robotFootprintSideLength \div 2
        cellXMin == Max(0, cell.cellX - delta)
        cellXMax == Min(cell.cellX + delta, m.cellsWide - 1)
        cellZMin == Max(0, cell.cellZ - delta)
        cellZMax == Min(cell.cellZ + delta, m.cellsDeep - 1)
    IN  \A cellZ \in cellZMin..cellZMax : \A cellX \in cellXMin..cellXMax :
            at(m, cellX, cellZ) = 0

\* static void getUnoccupiedNeighbors(neighbors, occupancy, cell, side):
\* the neighbours kept, in the order left, right, front, back.
getUnoccupiedNeighbors(m, cell, robotFootprintSideLength) ==
    LET x == cell.cellX
        z == cell.cellZ
        left == CellIndices(x - 1, z)
        right == CellIndices(x + 1, z)
        front == CellIndices(x, z - 1)
        back == CellIndices(x, z + 1)
    IN  (IF x > 0 /\ isCellSafe(m, left, robotFootprintSideLength)
         THEN <<left>> ELSE <<>>)
        \o (IF x < m.cellsWide - 1 /\ isCellSafe(m, right, robotFootprintSideLength)
            THEN <<right>> ELSE <<>>)
        \o (IF z > 0 /\ isCellSafe(m, front, robotFootprintSideLength)
            THEN <<front>> ELSE <<>>)
        \o (IF z < m.cellsDeep - 1 /\ isCellSafe(m, back, robotFootprintSideLength)
            THEN <<back>> ELSE <<>>)

\* The body of `for (auto neighbor: neighbors)` from neighbour i on: a visited
\* neighbour is skipped, a new one gets its transition and ends the search if it
\* is src, and is pushed on the frontier otherwise.
RECURSIVE visitNeighbors(_, _, _, _, _, _)
visitNeighbors(neighbors, i, cell, src, frontier, transitions) ==
    IF i > Len(neighbors)
    THEN [found |-> FALSE, frontier |-> frontier, transitions |-> transitions]
    ELSE LET neighbor == neighbors[i]
             alreadyVisited == neighbor \in DOMAIN transitions
         IN  IF alreadyVisited
             THEN visitNeighbors(neighbors, i + 1, cell, src, frontier, transitions)
             ELSE IF neighbor = src
                  THEN [found |-> TRUE, frontier |-> frontier,
                        transitions |-> (neighbor :> cell) @@ transitions]
                  ELSE visitNeighbors(neighbors, i + 1, cell, src,
                                      Append(frontier, neighbor),
                                      (neighbor :> cell) @@ transitions)

\* The search taking the cell pushed last from the frontier instead of the
\* cell pushed first (depth first)
RECURSIVE searchNewestFirst(_, _, _, _, _)
searchNewestFirst(m, robotFootprintSideLength, src, frontier, transitions) ==
    IF frontier = <<>>
    THEN [found |-> FALSE, frontier |-> frontier, transitions |-> transitions]
    ELSE LET cell == frontier[Len(frontier)]
             neighbors == getUnoccupiedNeighbors(m, cell, robotFootprintSideLength)
             r == visitNeighbors(neighbors, 1, cell, src,
                                 SubSeq(frontier, 1, Len(frontier) - 1), transitions)
         IN  IF r.found
             THEN r
             ELSE searchNewestFirst(m, robotFootprintSideLength, src,
                                    r.frontier, r.transitions)

\* `while (!frontier.empty())`: the breadth-first search from dest.
RECURSIVE searchFrontier(_, _, _, _, _)
searchFrontier(m, robotFootprintSideLength, src, frontier, transitions) ==
    IF frontier = <<>>
    THEN [found |-> FALSE, frontier |-> frontier, transitions |-> transitions]
    ELSE LET cell == Head(frontier)
             neighbors == getUnoccupiedNeighbors(m, cell, robotFootprintSideLength)
             r == visitNeighbors(neighbors, 1, cell, src, Tail(frontier), transitions)
         IN  IF r.found
             THEN r
             ELSE searchFrontier(m, robotFootprintSideLength, src,
                                 r.frontier, r.transitions)

\* dirWillChange with the test left out: every step is taken to continue the
\* direction of the one before
dirNeverChanges(movingAlongX, movingAlongZ, currentStep, prevStep) == FALSE

\* bool dirWillChange = (movingAlongX && ...) || (movingAlongZ && ...)
dirWillChange(movingAlongX, movingAlongZ, currentStep, prevStep) ==
    \/ (movingAlongX /\ currentStep.cellZ # prevStep.cellZ)
    \/ (movingAlongZ /\ currentStep.cellX # prevStep.cellX)

\* One pass of the do-while loop at foundCompletePath, then the rest of it.
\* t holds the loop's locals: currentStep, prevStep, haveDir, movingAlongX,
\* movingAlongZ and path.
RECURSIVE tracePath(_, _, _)
tracePath(transitions, dest, t) ==
    LET changes == dirWillChange(t.movingAlongX, t.movingAlongZ,
                                 t.currentStep, t.prevStep)
        keepsDirection == t.haveDir /\ ~changes
        setsDirection ==
            \/ (t.haveDir /\ changes)
            \/ (~t.haveDir /\ Len(t.path) = 1)
        path1 == IF keepsDirection /\ Len(t.path) > 1
                 THEN SubSeq(t.path, 1, Len(t.path) - 1)
                 ELSE t.path
        path2 == Append(path1, t.currentStep)
        t2 == [currentStep |-> t.currentStep,
               prevStep |-> t.currentStep,
               haveDir |-> (t.haveDir \/ Len(t.path) = 1),
               movingAlongX |-> IF setsDirection
                                THEN t.currentStep.cellZ = t.prevStep.cellZ
                                ELSE t.movingAlongX,
               movingAlongZ |-> IF setsDirection
                                THEN t.currentStep.cellX = t.prevStep.cellX
                                ELSE t.movingAlongZ,
               path |-> path2]
    IN  IF t.currentStep \notin DOMAIN transitions
        THEN \* "Path is corrupted": path.clear(); break;
             [t2 EXCEPT !.path = <<>>]
        ELSE LET next == transitions[t.currentStep]
             IN  IF next # dest
                 THEN tracePath(transitions, dest, [t2 EXCEPT !.currentStep = next])
                 ELSE [t2 EXCEPT !.currentStep = next]

\* The code from the label foundCompletePath to the end of findPath.
foundCompletePath(transitions, src, dest) ==
    LET t == tracePath(transitions, dest,
                 [currentStep |-> src, prevStep |-> src, haveDir |-> FALSE,
                  movingAlongX |-> FALSE, movingAlongZ |-> FALSE, path |-> <<>>])
    IN  Append(t.path, dest)

\* std::vector<CellIndices> findPath(occupancy, from, to, robotRadius)
findPath(m, from, to, robotRadius) ==
    LET robotFootprintSideLength == computeFootprintSideLengthInCells(m, robotRadius)
        dest == positionToCell(m, to)
        src == positionToCell(m, from)
    IN  IF atCell(m, dest) # 0
        THEN <<>>
        ELSE IF dest = src
        THEN <<src>>
        ELSE LET r == searchFrontier(m, robotFootprintSideLength, src,
                                     <<dest>>, (dest :> dest))
             IN  IF r.found
                 THEN foundCompletePath(r.transitions, src, dest)
                 ELSE <<>>

(***************************************************************************)
(* Bounds of the model.                                                    *)
(***************************************************************************)
\* the largest number of cells set occupied in a map handed to findPath
MaxOccupied == 2

\* the largest number of cells set occupied in a map a line is traced on
MaxBlocked == 1

(***************************************************************************)
(* The maps and inputs of the path search.                                 *)
(***************************************************************************)
\* The map m with the cell values v (one value per storage word).
WithOccupancy(m, v) == [m EXCEPT !.occupancy = v]

\* Storage contents with at most k words non-zero, each of them 1.
SparseStorage(m, k) ==
    {v \in [0..(StorageLen(m) - 1) -> {0, 1}] :
        Cardinality({i \in DOMAIN v : v[i] # 0}) <= k}

\* The bound on occupied words of a map: one less on the maps of more than
\* nine cells.
MaxOccupiedIn(m) == IF numCells(m) > 9 THEN MaxOccupied - 1 ELSE MaxOccupied

\* (cells wide, cells deep) of the maps searched: square maps and maps wider
\* than deep, on which cells share storage words.  A map deeper than wide is
\* left out: its constructor already writes beyond the allocation.
PathDims == {<<1, 1>>, <<2, 2>>, <<3, 3>>, <<3, 1>>, <<4, 1>>, <<4, 2>>, <<4, 4>>}

PathCellSide == 2


PathMaps ==
    UNION {LET m == OccupancyMap(PathCellSide * d[1], PathCellSide * d[2],
                                 PathCellSide, simd_make_float3(2, 0, -2))
           IN  {WithOccupancy(m, v) : v \in SparseStorage(m, MaxOccupiedIn(m))}
           : d \in PathDims}

\* The world position the constructor gave to the centre of a cell.
cellCentre(m, cell) ==
    simd_make_float3(
        m.centerPoint.x + m.cellSide * (cell.cellX - centerCell(m).cellX),
        0,
        m.centerPoint.z + m.cellSide * (cell.cellZ - centerCell(m).cellZ))

\* The centre of every cell, and one position beyond the far corner.
PathPositions(m) ==
    {cellCentre(m, c) : c \in Cells(m)}
        \cup {cellCentre(m, CellIndices(m.cellsWide + 1, m.cellsDeep + 1))}

\* A point robot, and a robot one cell side in radius.
PathRadii(m) == {0, m.cellSide}

NoMap == OccupancyMap(1, 1, 1, simd_make_float3(0, 0, 0))

InitPath ==
    /\ occupancy \in PathMaps
    /\ counts = NoMap
    /\ call \in {[op |-> "findPath", from |-> f, to |-> t, robotRadius |-> r] :
                    f \in PathPositions(occupancy), t \in PathPositions(occupancy),
                    r \in PathRadii(occupancy)}
    /\ ret = <<>>
    /\ pc = "ready"
    /\ memory = <<>>
    /\ task = <<>>

FindPath ==
    /\ pc = "ready"
    /\ call.op = "findPath"
    /\ ret' = findPath(occupancy, call.from, call.to, call.robotRadius)
    /\ pc' = "done"
    /\ UNCHANGED <<occupancy, counts, call, memory, task>>

NextPath == FindPath

SpecPath == InitPath /\ [][NextPath]_vars

(***************************************************************************)
(* Properties of findPath.                                                 *)
(***************************************************************************)
PathDone == pc = "done" /\ call.op = "findPath"

PathSrc == positionToCell(occupancy, call.from)

PathDest == positionToCell(occupancy, call.to)

PathSide == computeFootprintSideLengthInCells(occupancy, call.robotRadius)

Adjacent(c, d) == Abs(c.cellX - d.cellX) + Abs(c.cellZ - d.cellZ) = 1

\* The block of side `side` centred on `cell`, clipped to the grid, holds no
\* occupied cell.
FootprintFree(m, cell, side) ==
    \A c \in Cells(m) :
        (2 * Abs(c.cellX - cell.cellX) < side /\ 2 * Abs(c.cellZ - cell.cellZ) < side)
            => atCell(m, c) = 0

\* The cells joined to the cells of S by a chain of 4-connected cells taken
\* from `safe`.
RECURSIVE Closure(_, _)
Closure(safe, S) ==
    LET more == {c \in safe \ S : \E d \in S : Adjacent(c, d)}
    IN  IF more = {} THEN S ELSE Closure(safe, S \cup more)

\* The cells joined to the cells of S by a chain of 4-connected cells whose
\* members outside S all have a free footprint.
SafeClosure(m, side, S) ==
    Closure({c \in Cells(m) : FootprintFree(m, c, side)}, S)

NoRoute(m, src, dest, side) ==
    \/ atCell(m, dest) # 0
    \/ (src # dest /\ src \notin SafeClosure(m, side, {dest}))

\* C1: findPath returns the empty sequence exactly when the destination cell is
\* occupied, or src differs from dest and no chain of 4-connected cells, safe
\* for the footprint except possibly dest, joins dest to src; in every other
\* case the sequence returned is not empty.
C1_EmptyExactlyWhenNoRoute ==
    PathDone => ((ret = <<>>) <=> NoRoute(occupancy, PathSrc, PathDest, PathSide))

\* A search that fails only because of the footprint: a point robot has a
\* route, the robot of side 3 has none.
C1_Witness ==
    /\ PathDone
    /\ ret = <<>>
    /\ PathSide = 3
    /\ atCell(occupancy, PathDest) = 0
    /\ ~NoRoute(occupancy, PathSrc, PathDest, 1)

\* Three cells on one row or on one column.
SameLine(a, b, c) ==
    \/ (a.cellX = b.cellX /\ b.cellX = c.cellX)
    \/ (a.cellZ = b.cellZ /\ b.cellZ = c.cellZ)

\* C2: the waypoints returned are a minimal sequence of corners: src first,
\* dest last, and no three consecutive waypoints on one row or one column
\* (the cell just before dest included).
C2_MinimalCorners ==
    (PathDone /\ ret # <<>>) =>
        /\ ret[1] = PathSrc
        /\ ret[Len(ret)] = PathDest
        /\ \A i \in 1..(Len(ret) - 2) : ~SameLine(ret[i], ret[i + 1], ret[i + 2])

AllFree(m) == \A c \in Cells(m) : atCell(m, c) = 0

\* Two cells that differ in exactly one of cellX, cellZ.
AxisAlignedLeg(a, b) == (a.cellX = b.cellX) # (a.cellZ = b.cellZ)

\* C3: on an all-free map findPath returns a path from cell(from) to cell(to)
\* whose successive entries differ in exactly one of cellX, cellZ.
C3_AllFreeAxisAlignedLegs ==
    (PathDone /\ AllFree(occupancy)) =>
        /\ ret # <<>>
        /\ ret[1] = PathSrc
        /\ ret[Len(ret)] = PathDest
        /\ \A i \in 1..(Len(ret) - 1) : AxisAlignedLeg(ret[i], ret[i + 1])

\* A path on an all-free map that turns a corner.
C3_Witness ==
    /\ PathDone
    /\ AllFree(occupancy)
    /\ Len(ret) >= 3
    /\ \E i \in 1..(Len(ret) - 2) : ~SameLine(ret[i], ret[i + 1], ret[i + 2])

(***************************************************************************)
(* The concrete scenarios: maps of cell side 1 m centred on the origin.    *)
(* The length unit of these maps is half a metre.                          *)
(***************************************************************************)
\* The map m with the storage words of the cells in `cells` set to 1.
Occupy(m, cells) ==
    WithOccupancy(m, [i \in DOMAIN m.occupancy |->
        IF \E c \in cells : linearIndex(m, c.cellX, c.cellZ) = i
        THEN 1 ELSE m.occupancy[i]])

Metres(x, z) == simd_make_float3(2 * x, 0, 2 * z)

\* W = D = 2, s = 1
TinyMap == OccupancyMap(4, 4, 2, Metres(0, 0))

\* W = D = 5, s = 1
FiveMap == OccupancyMap(10, 10, 2, Metres(0, 0))

\* S1: the tiny free map
S1Map == TinyMap

\* S3: of column cellX = 2 only (2, 0) and (2, 4) are occupied
S3Map == Occupy(FiveMap, {CellIndices(2, 0), CellIndices(2, 4)})

\* S4: the single cell (2, 2) is occupied
S4Map == Occupy(FiveMap, {CellIndices(2, 2)})

\* The tiny map and the 5 x 5 map with any cells of column cellX = 2 occupied
\* (S2 is the whole column).
ScenarioMaps ==
    {Occupy(TinyMap, cs) : cs \in SUBSET {CellIndices(x, z) : x \in {0, 1}, z \in {0, 1}}}
        \cup {Occupy(FiveMap, cs) : cs \in SUBSET {CellIndices(2, z) : z \in 0..4}}

ScenarioPositions(m) ==
    IF m.cellsWide = 2
    THEN {simd_make_float3(-1, 0, -1), simd_make_float3(1, 0, 1)}
    ELSE {Metres(-2, -2), Metres(2, 2), Metres(-2, 2), Metres(2, -2),
          Metres(-2, 0), Metres(2, 0)}

ScenarioCalls(m) ==
    {[op |-> "findPath", from |-> f, to |-> t, robotRadius |-> r] :
        f \in ScenarioPositions(m), t \in ScenarioPositions(m), r \in {0, m.cellSide}}
    \cup
    {[op |-> "isLineUnobstructed", from |-> f, to |-> t] :
        f \in ScenarioPositions(m), t \in ScenarioPositions(m)}

InitScenario ==
    /\ occupancy \in ScenarioMaps
    /\ counts = NoMap
    /\ call \in ScenarioCalls(occupancy)
    /\ ret = <<>>
    /\ pc = "ready"
    /\ memory = <<>>
    /\ task = <<>>

IsLineUnobstructed ==
    /\ pc = "ready"
    /\ call.op = "isLineUnobstructed"
    /\ ret' = isLineUnobstructed(occupancy, call.from, call.to)
    /\ pc' = "done"
    /\ UNCHANGED <<occupancy, counts, call, memory, task>>

NextScenario == FindPath \/ IsLineUnobstructed

SpecScenario == InitScenario /\ [][NextScenario]_vars

\* The call has returned; it was findPath(from, to, r) on the map m.
FoundPath(m, from, to, r) ==
    /\ pc = "done"
    /\ occupancy = m
    /\ call = [op |-> "findPath", from |-> from, to |-> to, robotRadius |-> r]

\* The call has returned; it was isLineUnobstructed(from, to) on the map m.
CheckedLine(m, from, to) ==
    /\ pc = "done"
    /\ occupancy = m
    /\ call = [op |-> "isLineUnobstructed", from |-> from, to |-> to]

S1Call == FoundPath(S1Map, simd_make_float3(-1, 0, -1), simd_make_float3(1, 0, 1), 0)

\* C5 as stated: in S1 findPath returns the two waypoints (0, 0) and (1, 1).
C5_S1TwoWaypoints ==
    S1Call => ret = <<CellIndices(0, 0), CellIndices(1, 1)>>

\* C5 amended: in S1 both positions lie in cell (1, 1), the centre cell,
\* and findPath returns the single waypoint (1, 1).
C5_S1SingleWaypoint ==
    S1Call => ret = <<CellIndices(1, 1)>>

C5_Witness == S1Call /\ Len(ret) = 1

\* C6 as stated: in S4 the two diagonals are obstructed and the edge is not.
C6_S4AsStated ==
    /\ CheckedLine(S4Map, Metres(-2, -2), Metres(2, 2)) => ret = FALSE
    /\ CheckedLine(S4Map, Metres(-2, 2), Metres(2, -2)) => ret = FALSE
    /\ CheckedLine(S4Map, Metres(-2, -2), Metres(-2, 2)) => ret = TRUE

\* C6 amended: in S4 the line from (-2, 0, -2) to (2, 0, 2) is obstructed; the
\* line from (-2, 0, 2) to (2, 0, -2) and the line from (-2, 0, -2) to
\* (-2, 0, 2) are unobstructed.
C6_S4Lines ==
    /\ CheckedLine(S4Map, Metres(-2, -2), Metres(2, 2)) => ret = FALSE
    /\ CheckedLine(S4Map, Metres(-2, 2), Metres(2, -2)) => ret = TRUE
    /\ CheckedLine(S4Map, Metres(-2, -2), Metres(-2, 2)) => ret = TRUE

C6_Witness == CheckedLine(S4Map, Metres(-2, 2), Metres(2, -2)) /\ ret = TRUE

\* C7: in S3 findPath from (-2, 0, 0) to (2, 0, 0) returns a non-empty path for
\* r = 0 and the empty path for r = s, where the footprint side is 3.
C7_S3Footprint ==
    /\ FoundPath(S3Map, Metres(-2, 0), Metres(2, 0), 0) => ret # <<>>
    /\ FoundPath(S3Map, Metres(-2, 0), Metres(2, 0), S3Map.cellSide) =>
           (ret = <<>> /\ PathSide = 3)

C7_Witness ==
    /\ FoundPath(S3Map, Metres(-2, 0), Metres(2, 0), S3Map.cellSide)
    /\ ret = <<>>
    /\ ~NoRoute(occupancy, PathSrc, PathDest, 1)

(***************************************************************************)
(* The maps and end points of the line-of-sight test.  The cell side is 4  *)
(* length units, so that positions a quarter of a cell off a cell centre   *)
(* exist.                                                                  *)
(***************************************************************************)
LineDims == {<<1, 1>>, <<3, 3>>, <<3, 2>>, <<4, 1>>}

LineCellSide == 4

LineMaps ==
    UNION {LET m == OccupancyMap(LineCellSide * d[1], LineCellSide * d[2],
                                 LineCellSide, simd_make_float3(0, 0, 0))
           IN  {WithOccupancy(m, v) : v \in SparseStorage(m, MaxBlocked)}
           : d \in LineDims}

\* Along one axis: the centre of every cell, the point a quarter of a cell
\* after it, and one point beyond each end of the grid.
LineCoordinates(n, centre) ==
    {LineCellSide * (i - centre) + o : i \in 0..(n - 1), o \in {0, 1}}
        \cup {LineCellSide * (-2 - centre), LineCellSide * (n + 1 - centre)}

LinePositions(m) ==
    {simd_make_float3(x, 0, z) :
        x \in LineCoordinates(m.cellsWide, centerCell(m).cellX),
        z \in LineCoordinates(m.cellsDeep, centerCell(m).cellZ)}

InitLine ==
    /\ occupancy \in LineMaps
    /\ counts = NoMap
    /\ call \in {[op |-> "isLineUnobstructed", from |-> f, to |-> t] :
                    f \in LinePositions(occupancy), t \in LinePositions(occupancy)}
    /\ ret = <<>>
    /\ pc = "ready"
    /\ memory = <<>>
    /\ task = <<>>

NextLine == IsLineUnobstructed

SpecLine == InitLine /\ [][NextLine]_vars

(***************************************************************************)
(* The cells a segment passes through.  In fractional index coordinates    *)
(* scaled by 2 * cellSide, cell (i, j) is the square of half side cellSide *)
(* about (2 * cellSide * i, 2 * cellSide * j).  A rational is <<n, d>>     *)
(* with d > 0.                                                             *)
(***************************************************************************)
RatLess(a, b) == a[1] * b[2] < b[1] * a[2]

RatMax(a, b) == IF RatLess(a, b) THEN b ELSE a

RatMin(a, b) == IF RatLess(a, b) THEN a ELSE b

\* The t for which lo < u + t * v < hi, as a pair of rationals <<from, to>>
\* (an open interval, empty when from >= to).
AxisInterval(u, v, lo, hi) ==
    IF v > 0 THEN <<(<<lo - u, v>>), (<<hi - u, v>>)>>
    ELSE IF v < 0 THEN <<(<<u - hi, -v>>), (<<u - lo, -v>>)>>
    ELSE IF lo < u /\ u < hi THEN <<(<<-1, 1>>), (<<2, 1>>)>>
    ELSE <<(<<1, 1>>), (<<0, 1>>)>>

\* The segment from u to u + v meets the open square of half side h about
\* (cx, cz) at some t in [0, 1].
MeetsSquare(ux, uz, vx, vz, cx, cz, h) ==
    LET ix == AxisInterval(ux, vx, cx - h, cx + h)
        iz == AxisInterval(uz, vz, cz - h, cz + h)
        from == RatMax(ix[1], iz[1])
        to == RatMin(ix[2], iz[2])
    IN  RatLess(from, to) /\ RatLess(from, <<1, 1>>) /\ RatLess(<<0, 1>>, to)

\* The cells whose interior the segment between the two positions crosses
\* (margin 0), or that it comes within `margin` of (margin > 0), the end
\* points being the fractional indices the traversal starts from.
CellsOnSegment(m, from, to, margin) ==
    LET u == positionToFractionalIndices(m, from)
        w == positionToFractionalIndices(m, to)
    IN  {c \in Cells(m) :
            MeetsSquare(u.cellX, u.cellZ, w.cellX - u.cellX, w.cellZ - u.cellZ,
                        2 * m.cellSide * c.cellX, 2 * m.cellSide * c.cellZ,
                        m.cellSide + margin)}

LineDone == pc = "done" /\ call.op = "isLineUnobstructed"

\* The position lies strictly inside the extents of the grid, so that its
\* fractional indices are not clamped.
InsideGrid(m, position) ==
    LET f == positionToFractionalIndices(m, position)
    IN  /\ -m.cellSide < f.cellX
        /\ f.cellX < 2 * m.cellSide * (m.cellsWide - 1) + m.cellSide
        /\ -m.cellSide < f.cellZ
        /\ f.cellZ < 2 * m.cellSide * (m.cellsDeep - 1) + m.cellSide

\* C4: isLineUnobstructed returns true if and only if every cell the segment
\* passes through is unoccupied.  A cell whose interior the segment crosses
\* is passed through; a cell the segment does not even touch is not.  The
\* end points are taken inside the grid.
C4_TrueIffSegmentFree ==
    (LineDone /\ InsideGrid(occupancy, call.from) /\ InsideGrid(occupancy, call.to)) =>
        /\ ret = TRUE =>
               \A c \in CellsOnSegment(occupancy, call.from, call.to, 0) :
                   atCell(occupancy, c) = 0
        /\ ret = FALSE =>
               \E c \in CellsOnSegment(occupancy, call.from, call.to, 1) :
                   atCell(occupancy, c) # 0

(***************************************************************************)
(* The two world -> cell mappings applied to one position.  The coarse     *)
(* maps have a cell side of 1 or 2 length units; the fine map is the       *)
(* 5 m x 5 m map of cell side 1 m in units of 2^-25 m, on which positions  *)
(* a few float spacings off a cell edge exist.                             *)
(***************************************************************************)
\* the largest width and depth of a coarse map, in length units
MaxExtent == 6

\* the largest coordinate of a position on a coarse map
MaxCoordinate == 8

\* the largest distance, in length units, of a position from a cell edge of
\* the fine map
MaxOffset == 2

FineCellSide == 2^25

FineMap == OccupancyMap(5 * FineCellSide, 5 * FineCellSide, FineCellSide,
                        simd_make_float3(0, 0, 0))

\* Maps of every width and depth; a map deeper than wide in cells is left out.
CoarseMaps ==
    {OccupancyMap(w, d, s, c) :
        w \in 1..MaxExtent, d \in 1..MaxExtent, s \in {1, 2},
        c \in {simd_make_float3(0, 0, 0), simd_make_float3(1, 0, -2)}}

CellMaps ==
    {m \in CoarseMaps : m.cellSide <= m.width /\ m.cellSide <= m.depth
                        /\ m.cellsWide >= m.cellsDeep}
        \cup {FineMap}

\* The coordinates near the cell edges of the fine map that are floats.
FineCoordinates ==
    {x \in {b * (FineCellSide \div 2) + j :
                b \in {-7, -5, -3, -1, 1, 3}, j \in (-MaxOffset)..MaxOffset} :
        float32(x) = x}

CellPositions(m) ==
    IF m.cellSide = FineCellSide
    THEN {simd_make_float3(x, 0, z) : x \in FineCoordinates, z \in FineCoordinates}
    ELSE {simd_make_float3(x, 0, z) :
              x \in (-MaxCoordinate)..MaxCoordinate,
              z \in (-MaxCoordinate)..MaxCoordinate}

InitCell ==
    /\ occupancy \in CellMaps
    /\ counts = NoMap
    /\ call \in {[op |-> "positionToIndices", position |-> p] :
                    p \in CellPositions(occupancy)}
    /\ ret = <<>>
    /\ pc = "ready"
    /\ memory = <<>>
    /\ task = <<>>

\* positionToCell and positionToFractionalIndices of the same position
PositionToIndices ==
    /\ pc = "ready"
    /\ call.op = "positionToIndices"
    /\ ret' = [cell |-> positionToCell(occupancy, call.position),
               fractional |-> positionToFractionalIndices(occupancy, call.position)]
    /\ pc' = "done"
    /\ UNCHANGED <<occupancy, counts, call, memory, task>>

NextCell == PositionToIndices

SpecCell == InitCell /\ [][NextCell]_vars

CellDone == pc = "done" /\ call.op = "positionToIndices"

\* floor(f + 0.5) clamped to 0 .. n - 1, for f held as 2 * cellSide * f
RoundedIndex(f, cellSide, n) ==
    Min(Max(0, Floor(f + cellSide, 2 * cellSide)), n - 1)

\* The cell lies in the grid.
CellInGrid ==
    CellDone =>
        /\ ret.cell.cellX \in 0..(occupancy.cellsWide - 1)
        /\ ret.cell.cellZ \in 0..(occupancy.cellsDeep - 1)

\* The fractional indices lie in [-0.5, Nx - 0.5] x [-0.5, Nz - 0.5].
FractionalInRange ==
    CellDone =>
        LET s == occupancy.cellSide
        IN  /\ -s <= ret.fractional.cellX
            /\ ret.fractional.cellX <= 2 * s * occupancy.cellsWide - s
            /\ -s <= ret.fractional.cellZ
            /\ ret.fractional.cellZ <= 2 * s * occupancy.cellsDeep - s

\* Each index of the cell is floor(f + 0.5), clamped, of the fractional index.
CellAgreesWithFractional ==
    CellDone =>
        LET s == occupancy.cellSide
        IN  /\ ret.cell.cellX = RoundedIndex(ret.fractional.cellX, s, occupancy.cellsWide)
            /\ ret.cell.cellZ = RoundedIndex(ret.fractional.cellZ, s, occupancy.cellsDeep)

\* C8: for every position, inside the grid or outside it, positionToCell lies
\* in [0, Nx) x [0, Nz), each of its indices equals floor(f + 0.5) clamped to
\* the grid for f the matching index of positionToFractionalIndices, and the
\* fractional indices lie in [-0.5, Nx - 0.5] x [-0.5, Nz - 0.5].
C8_CellIsRoundedFractional ==
    CellInGrid /\ CellAgreesWithFractional /\ FractionalInRange

(***************************************************************************)
(* One depth frame handed to updateCellCounts.  The count maps have a cell *)
(* side of 2 length units and are centred on the origin; the depth values  *)
(* are one and two cell sides; the depth image is half the size of the RGB *)
(* image and the focal lengths are 2 RGB pixels, so that a pixel one step  *)
(* off the principal point lies one depth away from the optical axis.      *)
(***************************************************************************)
\* the largest count of a cell before a call
MaxCount == 2

\* the largest number of cells with a non-zero count before a frame
MaxCounted == 1

\* Storage contents with at most k words non-zero, each of them in 1 .. v.
CountStorage(m, k, v) ==
    {c \in [0..(StorageLen(m) - 1) -> 0..v] :
        Cardinality({i \in DOMAIN c : c[i] # 0}) <= k}

FrameDims == {<<1, 1>>, <<2, 2>>, <<3, 2>>}

FrameMaps ==
    UNION {LET m == OccupancyMap(2 * d[1], 2 * d[2], 2, simd_make_float3(0, 0, 0))
           IN  {WithOccupancy(m, c) : c \in CountStorage(m, MaxCounted, MaxCount)}
           : d \in FrameDims}

\* Depth images of 2 x 1 and 1 x 2 pixels, with and without one float of row
\* padding; a padding float holds a depth of one cell side.
DepthMaps(m) ==
    UNION {LET stride == d[1] + pad
               isPixel(i) == i % stride < d[1]
           IN  {[width |-> d[1], height |-> d[2], bytesPerRow |-> 4 * stride, base |-> b] :
                   b \in {f \in [0..(d[2] * stride - 1) -> {m.cellSide, 2 * m.cellSide}] :
                             \A i \in DOMAIN f : ~isPixel(i) => f[i] = m.cellSide}}
           : d \in {<<2, 1>>, <<1, 2>>}, pad \in {0, 1}}

\* fx = fy = 2, principal point (cx, cy) = (c, c) in RGB pixels
Intrinsics ==
    {<<simd_make_float3(2, 0, 0), simd_make_float3(0, 2, 0), simd_make_float3(c, c, 1)>> :
        c \in {0, 2}}

\* The camera at the origin looking along -z; the same one cell side further
\* along +z; the camera turned a quarter turn about the y axis.
ViewMatrices(m) ==
    {<<simd_make_float4(1, 0, 0, 0), simd_make_float4(0, 1, 0, 0),
       simd_make_float4(0, 0, 1, 0), simd_make_float4(0, 0, tz, 1)>> : tz \in {0, m.cellSide}}
    \cup
    {<<simd_make_float4(0, 0, -1, 0), simd_make_float4(0, 1, 0, 0),
       simd_make_float4(1, 0, 0, 0), simd_make_float4(0, 0, 0, 1)>>}

FrameCalls(m) ==
    {[op |-> "updateCellCounts", depthMap |-> d, intrinsics |-> k,
      rgbResolution |-> simd_make_float2(2 * d.width, 2 * d.height),
      viewMatrix |-> v, minDepth |-> g[1], maxDepth |-> g[2],
      minHeight |-> h[1], maxHeight |-> h[2],
      incomingSampleWeight |-> wi, previousWeight |-> wp] :
        d \in DepthMaps(m), k \in Intrinsics, v \in ViewMatrices(m),
        g \in {<<m.cellSide, 2 * m.cellSide>>, <<2 * m.cellSide, 2 * m.cellSide>>},
        h \in {<<0, 0>>, <<-m.cellSide, 2 * m.cellSide>>},
        wi \in {1, 2}, wp \in {0, 1, 2}}

InitFrame ==
    /\ occupancy = NoMap
    /\ counts \in FrameMaps
    /\ call \in FrameCalls(counts)
    /\ ret = <<>>
    /\ pc = "ready"
    /\ memory = <<>>
    /\ task = <<>>

UpdateCellCounts ==
    /\ pc = "ready"
    /\ call.op = "updateCellCounts"
    /\ counts' = updateCellCounts(counts, call)
    /\ pc' = "done"
    /\ UNCHANGED <<occupancy, call, ret, memory, task>>

NextFrame == UpdateCellCounts

SpecFrame == InitFrame /\ [][NextFrame]_vars

\* The pixels of the frame a that pass both gates and map to the cell.
PixelsCounted(m, a, cell) ==
    {px \in (0..(a.depthMap.width - 1)) \X (0..(a.depthMap.height - 1)) :
        LET depth == a.depthMap.base[px[2] * (a.depthMap.bytesPerRow \div 4) + px[1]]
            position == worldPos(a.depthMap, a.intrinsics, a.rgbResolution,
                                 a.viewMatrix, px[1], px[2], depth)
        IN  /\ a.minDepth <= depth /\ depth <= a.maxDepth
            /\ a.minHeight <= position.y /\ position.y <= a.maxHeight
            /\ positionToCell(m, position) = cell}

\* This step is one updateCellCounts call.
FrameStep == pc = "ready" /\ pc' = "done" /\ call.op = "updateCellCounts"

\* The count of the cell after the step is previousWeight times its count
\* before plus incomingSampleWeight times the number of its pixels.
DecayedThenCounted(cell) ==
    atCell(counts', cell) =
        call.previousWeight * atCell(counts, cell)
            + call.incomingSampleWeight * Cardinality(PixelsCounted(counts, call, cell))

\* C10: after one updateCellCounts call every cell's count is previousWeight
\* times its count before the call plus incomingSampleWeight times the number
\* of pixels of the frame that pass the depth gate and the height gate and map
\* to that cell.
C10_DecayOnceThenCount ==
    [][FrameStep => \A cell \in Cells(counts) : DecayedThenCounted(cell)]_vars

(***************************************************************************)
(* Sequences of updateOccupancyFromCounts calls, each with a count map of  *)
(* as many cells and a threshold.                                          *)
(***************************************************************************)
\* (cells wide, cells deep) of the occupancy map and of the count maps
CountsDims ==
    {<<<<1, 1>>, <<1, 1>>>>, <<<<3, 1>>, <<3, 1>>>>,
     <<<<2, 2>>, <<2, 2>>>>, <<<<4, 1>>, <<2, 2>>>>}

PlainMap(d) == OccupancyMap(d[1], d[2], 1, simd_make_float3(0, 0, 0))

\* The count maps that may be passed to a call on the map m.
CountMaps(m) ==
    UNION {LET c == PlainMap(d[2])
           IN  {WithOccupancy(c, v) : v \in CountStorage(c, MaxCounted + 1, MaxCount)}
           : d \in {e \in CountsDims : PlainMap(e[1]).cellsWide = m.cellsWide
                                       /\ PlainMap(e[1]).cellsDeep = m.cellsDeep}}

InitCounts ==
    /\ occupancy \in {PlainMap(d[1]) : d \in CountsDims}
    /\ counts = NoMap
    /\ call = [op |-> "none"]
    /\ ret = <<>>
    /\ pc = "ready"
    /\ memory = <<>>
    /\ task = <<>>

UpdateOccupancyFromCounts ==
    \E c \in CountMaps(occupancy), thresholdAmount \in 0..(MaxCount + 1) :
        /\ numCells(c) = numCells(occupancy)
        /\ occupancy' = updateOccupancyFromCounts(occupancy, c, thresholdAmount)
        /\ counts' = c
        /\ call' = [op |-> "updateOccupancyFromCounts", thresholdAmount |-> thresholdAmount]
        /\ pc' = "done"
        /\ UNCHANGED <<ret, memory, task>>

NextCounts == UpdateOccupancyFromCounts

SpecCounts == InitCounts /\ [][NextCounts]_vars

\* This step is one updateOccupancyFromCounts call; counts' is the count map
\* passed and call' holds the threshold.
CountsStep == pc' = "done" /\ call'.op = "updateOccupancyFromCounts"

Words(m) == DOMAIN m.occupancy

\* C9: updateOccupancyFromCounts(counts, T) sets self[i] to 1 exactly for the
\* cells with counts[i] >= T and leaves every other cell unchanged; so a cell
\* that is occupied stays occupied over any sequence of calls, and a call
\* with T greater than every count changes no cell.
C9_ThresholdOnlyAdds ==
    [][CountsStep =>
        /\ \A i \in Words(occupancy) :
               occupancy'.occupancy[i] =
                   IF counts'.occupancy[i] >= call'.thresholdAmount
                   THEN 1 ELSE occupancy.occupancy[i]
        /\ \A i \in Words(occupancy) :
               occupancy.occupancy[i] # 0 => occupancy'.occupancy[i] # 0
        /\ (\A i \in Words(counts') : counts'.occupancy[i] < call'.thresholdAmount)
               => occupancy' = occupancy]_vars

\* After a call, a cell is occupied although its count is below the threshold
\* of that call (an earlier call set it), another cell is at or above the
\* threshold, and a third is free.
C9_Witness ==
    /\ pc = "done"
    /\ call.op = "updateOccupancyFromCounts"
    /\ \E i, j, k \in Words(occupancy) :
           /\ occupancy.occupancy[i] = 1 /\ counts.occupancy[i] < call.thresholdAmount
           /\ occupancy.occupancy[j] = 1 /\ counts.occupancy[j] >= call.thresholdAmount
           /\ occupancy.occupancy[k] = 0

(***************************************************************************)
(* Bounding boxes of humans: struct Box2D.  A box covers the pixels        *)
(* x .. x + width - 1 by y .. y + height - 1 of the mask.                  *)
(***************************************************************************)
Box2D(x, y, width, height) == [x |-> x, y |-> y, width |-> width, height |-> height]

\* bool Box2D::overlaps(const Box2D &other) const; the last comparison is
\* against y + width.
overlaps(self, other) ==
    ~ \/ self.x >= other.x + other.width
      \/ self.y >= other.y + other.height
      \/ other.x >= self.x + self.width
      \/ other.y >= self.y + self.width

\* void Box2D::mergeWith(const Box2D &other): the box after the call.
mergeWith(self, other) ==
    LET x1 == Min(self.x, other.x)
        y1 == Min(self.y, other.y)
        x2 == Max(self.x + self.width - 1, other.x + other.width - 1)
        y2 == Max(self.y + self.height - 1, other.y + other.height - 1)
        newWidth == x2 - x1 + 1
        newHeight == y2 - y1 + 1
    IN  Box2D(x1, y1, newWidth, newHeight)

(***************************************************************************)
(* One call of overlaps on a pair of boxes.                                *)
(***************************************************************************)
MaxBoxCorner == 3
MaxBoxSide == 3

Boxes ==
    {Box2D(x, y, w, h) : x \in 0..MaxBoxCorner, y \in 0..MaxBoxCorner,
                         w \in 1..MaxBoxSide, h \in 1..MaxBoxSide}

InitBoxes ==
    /\ occupancy = NoMap
    /\ counts = NoMap
    /\ call \in {[op |-> "overlaps", self |-> a, other |-> b] : a \in Boxes, b \in Boxes}
    /\ ret = <<>>
    /\ pc = "ready"
    /\ memory = <<>>
    /\ task = <<>>

Overlaps ==
    /\ pc = "ready"
    /\ call.op = "overlaps"
    /\ ret' = overlaps(call.self, call.other)
    /\ pc' = "done"
    /\ UNCHANGED <<occupancy, counts, call, memory, task>>

NextBoxes == Overlaps

SpecBoxes == InitBoxes /\ [][NextBoxes]_vars

\* The pixels a box covers.
PixelsOf(box) ==
    {<<x, y>> : x \in box.x..(box.x + box.width - 1),
                y \in box.y..(box.y + box.height - 1)}

\* The two rectangles have a pixel in common.
Intersect(a, b) == PixelsOf(a) \cap PixelsOf(b) # {}

\* C12: a.overlaps(b) is true exactly when the rectangles
\* [x, x + width) x [y, y + height) of a and b intersect in both axes, for
\* all boxes of width and height at least 1; so a.overlaps(b) and
\* b.overlaps(a) agree.
C12_OverlapsIffIntersect ==
    (pc = "done" /\ call.op = "overlaps") =>
        /\ ret = Intersect(call.self, call.other)
        /\ ret = overlaps(call.other, call.self)

(***************************************************************************)
(* Human instancing: findHumans.  A segmentation mask is a pixel buffer    *)
(* [width, height, bytesPerRow, base] of one byte per pixel, base holding  *)
(* the bytes in memory order, row padding included.  A std::vector<Box2D>  *)
(* is a sequence; the C++ index i is element i + 1.                        *)
(***************************************************************************)

\* int neighborWindowSize = 17
neighborWindowSize == 17

\* int findOverlappingBoxIndex(humans, box): the first index whose box the
\* argument overlaps, or -1
findOverlappingBoxIndex(humans, box) ==
    LET found == {i \in 0..(Len(humans) - 1) : overlaps(box, humans[i + 1])}
    IN  IF found = {} THEN -1
        ELSE CHOOSE i \in found : \A k \in found : i <= k

\* An expansion that leaves the existing box as it was
expandNothing(existingBox, xi, yi) == existingBox

\* The existing box expanded to hold pixel (xi, yi): only its right and
\* bottom edges move.
expandBox(existingBox, xi, yi) ==
    LET x2 == Max(existingBox.x + existingBox.width - 1, xi)
        y2 == Max(existingBox.y + existingBox.height - 1, yi)
        width == x2 - existingBox.x + 1
        height == y2 - existingBox.y + 1
    IN  Box2D(existingBox.x, existingBox.y, width, height)

\* The body of the pixel loops for a human pixel (xi, yi): the vector after
\* the pixel is handled.
visitHumanPixel(humans, xi, yi) ==
    LET offset == neighborWindowSize \div 2
        neighborhood == Box2D(xi - offset, yi - offset, neighborWindowSize, neighborWindowSize)
        humanIdx == findOverlappingBoxIndex(humans, neighborhood)
    IN  IF humanIdx < 0
        THEN Append(humans, Box2D(xi, yi, 1, 1))
        ELSE LET existingBox == expandBox(humans[humanIdx + 1], xi, yi)
                 moved == [humans EXCEPT ![humanIdx + 1] = humans[1]]
             IN  [moved EXCEPT ![1] = existingBox]

\* for (int xi = ...; xi < maskWidth; xi++), with mask[i] the byte of (xi, yi).
\* The tests on the length of the vector, here and in scanRows, always hold;
\* they make the vector a value before the loop goes on.
RECURSIVE scanRow(_, _, _, _, _, _)
scanRow(segmentationMap, minimumConfidence, xi, yi, i, humans) ==
    IF xi >= segmentationMap.width THEN humans
    ELSE IF segmentationMap.base[i] < minimumConfidence
    THEN scanRow(segmentationMap, minimumConfidence, xi + 1, yi, i + 1, humans)
    ELSE LET visited == visitHumanPixel(humans, xi, yi)
         IN  IF Len(visited) > 0
             THEN scanRow(segmentationMap, minimumConfidence, xi + 1, yi, i + 1, visited)
             ELSE visited

\* for (int yi = ...; yi < maskHeight; yi++); a row advances i by maskWidth
\* and then by offsetToNextLine = bytesPerRow - maskWidth
RECURSIVE scanRows(_, _, _, _, _)
scanRows(segmentationMap, minimumConfidence, yi, i, humans) ==
    IF yi >= segmentationMap.height THEN humans
    ELSE LET maskOffsetToNextLine == segmentationMap.bytesPerRow - segmentationMap.width
             scanned == scanRow(segmentationMap, minimumConfidence, 0, yi, i, humans)
         IN  IF Len(scanned) >= 0
             THEN scanRows(segmentationMap, minimumConfidence, yi + 1,
                           i + segmentationMap.width + maskOffsetToNextLine, scanned)
             ELSE scanned

\* One pass of the merge loops from the pair (i, j) on; merging erases
\* humans[j] and looks at the same j again.
RECURSIVE mergePass(_, _, _, _)
mergePass(humans, i, j, mergedSomething) ==
    IF i >= Len(humans)
    THEN [humans |-> humans, mergedSomething |-> mergedSomething]
    ELSE IF j >= Len(humans)
    THEN mergePass(humans, i + 1, i + 2, mergedSomething)
    ELSE IF overlaps(humans[i + 1], humans[j + 1])
    THEN LET merged == [humans EXCEPT ![i + 1] = mergeWith(humans[i + 1], humans[j + 1])]
             erased == SubSeq(merged, 1, j) \o SubSeq(merged, j + 2, Len(merged))
         IN  mergePass(erased, i, j, TRUE)
    ELSE mergePass(humans, i, j + 1, mergedSomething)

\* do { ... } while (mergedSomething)
RECURSIVE mergeOverlapping(_)
mergeOverlapping(humans) ==
    LET pass == mergePass(humans, 0, 1, FALSE)
    IN  IF pass.mergedSomething THEN mergeOverlapping(pass.humans) ELSE pass.humans

\* std::vector<Box2D> findHumans(segmentationMap, minimumConfidence)
findHumans(segmentationMap, minimumConfidence) ==
    mergeOverlapping(scanRows(segmentationMap, minimumConfidence, 0, 0, <<>>))

(***************************************************************************)
(* One call of findHumans.  A mask is given by the set of its human        *)
(* pixels, which hold HumanByte; the other pixels hold 0 and the bytes of  *)
(* row padding hold 255.  The sparse masks choose their human pixels among *)
(* a few columns and rows that lie up to the reach of the neighbor window  *)
(* apart; the block masks hold two filled squares.                         *)
(***************************************************************************)
HumanByte == 128

Mask(width, height, pad, humanPixels) ==
    LET stride == width + pad
    IN  [width |-> width, height |-> height, bytesPerRow |-> stride,
         base |-> [i \in 0..(height * stride - 1) |->
                      IF i % stride >= width THEN 255
                      ELSE IF <<i % stride, i \div stride>> \in humanPixels THEN HumanByte
                      ELSE 0]]

SparseColumns == {0, 8, 9}
SparseRows == {0, 8, 10, 11}

SparseMasks ==
    {Mask(10, 12, pad, s) : pad \in {0, 2}, s \in SUBSET (SparseColumns \X SparseRows)}

BlockSide == 20
BlockGap == 30

Block(x, y) == (x..(x + BlockSide - 1)) \X (y..(y + BlockSide - 1))

\* Two blocks side by side, and one above the other.
BlockMasks ==
    {Mask(2 * BlockSide + BlockGap, BlockSide, pad,
          Block(0, 0) \cup Block(BlockSide + BlockGap, 0)) : pad \in {0, 2}}
    \cup
    {Mask(BlockSide, 2 * BlockSide + BlockGap, pad,
          Block(0, 0) \cup Block(0, BlockSide + BlockGap)) : pad \in {0, 2}}

InitHumans ==
    /\ occupancy = NoMap
    /\ counts = NoMap
    /\ call \in {[op |-> "findHumans", segmentationMap |-> s, minimumConfidence |-> c] :
                    s \in SparseMasks \cup BlockMasks, c \in {HumanByte, HumanByte + 1}}
    /\ ret = <<>>
    /\ pc = "ready"
    /\ memory = <<>>
    /\ task = <<>>

FindHumans ==
    /\ pc = "ready"
    /\ call.op = "findHumans"
    /\ ret' = findHumans(call.segmentationMap, call.minimumConfidence)
    /\ pc' = "done"
    /\ UNCHANGED <<occupancy, counts, call, memory, task>>

NextHumans == FindHumans

SpecHumans == InitHumans /\ [][NextHumans]_vars

FoundHumans == pc = "done" /\ call.op = "findHumans"

\* C11: after findHumans returns, every two distinct output boxes have no
\* pixel in common, for every mask and threshold.
C11_BoxesPairwiseDisjoint ==
    FoundHumans =>
        \A i, j \in 1..Len(ret) : i # j => ~Intersect(ret[i], ret[j])

\* Scenario S6: the call on a mask of two blocks with the threshold that the
\* block pixels just reach.
S6Call ==
    /\ FoundHumans
    /\ call.segmentationMap \in BlockMasks
    /\ call.minimumConfidence = HumanByte

\* The two blocks of a block mask.
S6Blocks ==
    IF call.segmentationMap.width > call.segmentationMap.height
    THEN <<Block(0, 0), Block(BlockSide + BlockGap, 0)>>
    ELSE <<Block(0, 0), Block(0, BlockSide + BlockGap)>>

\* C20 (scenario S6): on a mask of two 20 x 20 blocks of pixels at the
\* threshold, 30 pixels of zeros apart, findHumans returns exactly two
\* boxes, each block lies inside a box of its own, and overlaps between the
\* two boxes is false.
C20_S6TwoBoxes ==
    S6Call =>
        /\ Len(ret) = 2
        /\ \E i, j \in 1..2 :
               /\ i # j
               /\ S6Blocks[1] \subseteq PixelsOf(ret[i])
               /\ S6Blocks[2] \subseteq PixelsOf(ret[j])
        /\ ~overlaps(ret[1], ret[2])
        /\ ~overlaps(ret[2], ret[1])

\* The call on the blocks side by side has returned: the right block's box
\* is first in the vector (it was expanded last), the left block's second.
C20_Witness ==
    /\ S6Call
    /\ call.segmentationMap.width > call.segmentationMap.height
    /\ ret = <<Box2D(BlockSide + BlockGap, 0, BlockSide, BlockSide),
               Box2D(0, 0, BlockSide, BlockSide)>>

(***************************************************************************)
(* Depth filtering: filterDepthMap.  The depth map is a buffer of floats   *)
(* (bytesPerRow counts bytes, base holds words), the confidence map a      *)
(* buffer of bytes of the same width and height.  Depths are whole metres. *)
(***************************************************************************)

\* *depthValues = 1e6f
filteredDepth == 1000000

\* size_t offsetToNextLineDepthMap = bytesPerRow / sizeof(float) - width
offsetToNextLineDepthMap(depthMap, width) == depthMap.bytesPerRow \div 4 - width

\* The confidence offset computed in floats, as for the depth map
offsetInFloats(confidenceMap, width) == confidenceMap.bytesPerRow \div 4 - width

\* size_t offsetToNextLineConfidenceMap = bytesPerRow - width
offsetToNextLineConfidenceMap(confidenceMap, width) == confidenceMap.bytesPerRow - width

\* The loop over i of the unpadded case, from i on: the depth words after it.
RECURSIVE filterContiguous(_, _, _, _, _)
filterContiguous(depthValues, confidenceValues, minimumConfidence, i, n) ==
    IF i >= n THEN depthValues
    ELSE filterContiguous(IF confidenceValues[i] < minimumConfidence
                          THEN [depthValues EXCEPT ![i] = filteredDepth]
                          ELSE depthValues,
                          confidenceValues, minimumConfidence, i + 1, n)

\* The loops over y and x of the padded case, from pixel (x, y) on, with the
\* depth pointer at word d and the confidence pointer at byte c.
RECURSIVE filterRows(_, _, _, _, _, _, _, _)
filterRows(depthMap, confidenceMap, minimumConfidence, depthValues, x, y, d, c) ==
    IF y >= depthMap.height THEN depthValues
    ELSE IF x >= depthMap.width
    THEN filterRows(depthMap, confidenceMap, minimumConfidence, depthValues, 0, y + 1,
                    d + offsetToNextLineDepthMap(depthMap, depthMap.width),
                    c + offsetToNextLineConfidenceMap(confidenceMap, depthMap.width))
    ELSE filterRows(depthMap, confidenceMap, minimumConfidence,
                    IF confidenceMap.base[c] < minimumConfidence
                    THEN [depthValues EXCEPT ![d] = filteredDepth]
                    ELSE depthValues,
                    x + 1, y, d + 1, c + 1)

\* void filterDepthMap(depthMap, confidenceMap, minimumConfidence): the depth
\* map after the call.
filterDepthMap(depthMap, confidenceMap, minimumConfidence) ==
    LET width == depthMap.width
        height == depthMap.height
    IN  IF /\ offsetToNextLineDepthMap(depthMap, width) = 0
           /\ offsetToNextLineConfidenceMap(confidenceMap, width) = 0
        THEN [depthMap EXCEPT !.base = filterContiguous(depthMap.base, confidenceMap.base,
                                                        minimumConfidence, 0, width * height)]
        ELSE [depthMap EXCEPT !.base = filterRows(depthMap, confidenceMap, minimumConfidence,
                                                  depthMap.base, 0, 0, 0, 0)]

(***************************************************************************)
(* One call of filterDepthMap.  Pixel (x, y) of a depth map holds          *)
(* 1 + x + y * width metres; a float of row padding holds PaddingDepth; a  *)
(* byte of row padding holds 0.                                            *)
(***************************************************************************)
PaddingDepth == 77

FilterDims == {<<2, 2>>, <<1, 2>>, <<2, 1>>}

FilterDepthMaps(d) ==
    {LET stride == d[1] + pad
     IN  [width |-> d[1], height |-> d[2], bytesPerRow |-> 4 * stride,
          base |-> [i \in 0..(d[2] * stride - 1) |->
                       IF i % stride >= d[1] THEN PaddingDepth
                       ELSE 1 + (i % stride) + (i \div stride) * d[1]]]
     : pad \in {0, 1}}

ConfidenceBytes == {0, 127, 128, 255}

ConfidenceMaps(d) ==
    UNION {LET stride == d[1] + pad
           IN  {[width |-> d[1], height |-> d[2], bytesPerRow |-> stride,
                 base |-> [i \in 0..(d[2] * stride - 1) |->
                              IF i % stride >= d[1] THEN 0
                              ELSE f[(i % stride) + (i \div stride) * d[1]]]] :
                   f \in [0..(d[1] * d[2] - 1) -> ConfidenceBytes]}
           : pad \in {0, 1, 4}}

InitFilter ==
    /\ occupancy = NoMap
    /\ counts = NoMap
    /\ call \in UNION {{[op |-> "filterDepthMap", depthMap |-> m, confidenceMap |-> c,
                         minimumConfidence |-> t] :
                           m \in FilterDepthMaps(d), c \in ConfidenceMaps(d), t \in {0, 128, 255}}
                       : d \in FilterDims}
    /\ ret = <<>>
    /\ pc = "ready"
    /\ memory = <<>>
    /\ task = <<>>

\* The depth map is filtered in place; ret holds the buffer after the call.
FilterDepthMap ==
    /\ pc = "ready"
    /\ call.op = "filterDepthMap"
    /\ ret' = filterDepthMap(call.depthMap, call.confidenceMap, call.minimumConfidence)
    /\ pc' = "done"
    /\ UNCHANGED <<occupancy, counts, call, memory, task>>

NextFilter == FilterDepthMap

SpecFilter == InitFilter /\ [][NextFilter]_vars

Filtered == pc = "done" /\ call.op = "filterDepthMap"

\* The word of pixel (x, y) in a buffer of floats, and the byte in a buffer
\* of bytes.
FloatAt(buffer, x, y) == buffer.base[y * (buffer.bytesPerRow \div 4) + x]

ByteAt(buffer, x, y) == buffer.base[y * buffer.bytesPerRow + x]

\* The words of a buffer of floats that are row padding.
PaddingWords(buffer) ==
    {i \in DOMAIN buffer.base : i % (buffer.bytesPerRow \div 4) >= buffer.width}

\* C13: filterDepthMap overwrites a depth pixel with 1e6 exactly when the
\* confidence byte at the same (x, y) is strictly below minimumConfidence;
\* every other depth pixel keeps its value, whatever the row strides of the
\* two buffers, and row padding is never written.
C13_FilterByConfidence ==
    Filtered =>
        /\ \A x \in 0..(call.depthMap.width - 1), y \in 0..(call.depthMap.height - 1) :
               FloatAt(ret, x, y) =
                   IF ByteAt(call.confidenceMap, x, y) < call.minimumConfidence
                   THEN 1000000
                   ELSE FloatAt(call.depthMap, x, y)
        /\ DOMAIN ret.base = DOMAIN call.depthMap.base
        /\ \A i \in PaddingWords(call.depthMap) : ret.base[i] = call.depthMap.base[i]

\* The example, with padding in both buffers: depth [[1,2],[3,4]],
\* confidence [[0,255],[255,0]] and threshold 128 give [[1e6,2],[3,1e6]].
C13_Witness ==
    /\ Filtered
    /\ call.minimumConfidence = 128
    /\ call.depthMap.width = 2 /\ call.depthMap.height = 2
    /\ call.depthMap.bytesPerRow = 12 /\ call.confidenceMap.bytesPerRow = 6
    /\ <<ByteAt(call.confidenceMap, 0, 0), ByteAt(call.confidenceMap, 1, 0),
         ByteAt(call.confidenceMap, 0, 1), ByteAt(call.confidenceMap, 1, 1)>> = <<0, 255, 255, 0>>
    /\ <<FloatAt(call.depthMap, 0, 0), FloatAt(call.depthMap, 1, 0),
         FloatAt(call.depthMap, 0, 1), FloatAt(call.depthMap, 1, 1)>> = <<1, 2, 3, 4>>
    /\ <<FloatAt(ret, 0, 0), FloatAt(ret, 1, 0),
         FloatAt(ret, 0, 1), FloatAt(ret, 1, 1)>> = <<1000000, 2, 3, 1000000>>

(***************************************************************************)
(* Depth of a human: computeAverageDepthOfBoundingBox.  Depths are         *)
(* integers counted in the length unit; cumulativeDepth is a float, so     *)
(* every sum is rounded by float32, and the quotient is rounded to the     *)
(* nearest binary32 value, which need not be a whole number of units and   *)
(* is held as Num(n, d).                                                   *)
(***************************************************************************)

\* The nearest integer to a / b for a >= 0 and b > 0, ties to the even one.
RoundTiesEven(a, b) ==
    LET q == a \div b
        r == a % b
    IN  IF 2 * r > b \/ (2 * r = b /\ q % 2 = 1) THEN q + 1 ELSE q

\* The least j >= 0 with n * 2^j / d >= 2^23, for n > 0 and d > 0.
RECURSIVE scaleOf(_, _, _)
scaleOf(n, d, j) == IF n * 2^j >= 2^23 * d THEN j ELSE scaleOf(n, d, j + 1)

\* m / 2^j with the common factors of two removed.
RECURSIVE Dyadic(_, _)
Dyadic(m, j) == IF j > 0 /\ m % 2 = 0 THEN Dyadic(m \div 2, j - 1) ELSE Num(m, 2^j)

\* float(n) / float(d) for floats n >= 0 and d > 0 holding integers: n / d
\* rounded to a 24-bit significand.
float32Div(n, d) ==
    IF n = 0 THEN Num(0, 1)
    ELSE IF n \div d >= 2^23
    THEN LET u == ulpOf(n \div d, 1)
         IN  Num(RoundTiesEven(n, d * u) * u, 1)
    ELSE LET j == scaleOf(n, d, 0)
         IN  Dyadic(RoundTiesEven(n * 2^j, d), j)

\* int i >= size_t n: the int is converted to size_t, and a negative int
\* becomes a value above every buffer dimension.
intAtLeastSize(i, n) == i < 0 \/ i >= n

\* The loops over yi and xi from pixel (xi, yi) on, `line` the word the
\* pointer is at, box the clipped box; acc holds cumulativeDepth,
\* numPixelsCounted and the pixels read so far.
RECURSIVE averageLoop(_, _, _, _, _, _, _)
averageLoop(depthMap, box, maximumDepth, xi, yi, line, acc) ==
    LET depthStride == depthMap.bytesPerRow \div 4
    IN  IF yi >= box.y + box.height THEN acc
        ELSE IF xi >= box.x + box.width
        THEN averageLoop(depthMap, box, maximumDepth, box.x, yi + 1,
                         (yi + 1) * depthStride + box.x, acc)
        ELSE LET depth == depthMap.base[line]
                 read == [acc EXCEPT !.sampled = @ \cup {<<xi, yi>>}]
             IN  averageLoop(depthMap, box, maximumDepth, xi + 1, yi, line + 1,
                             IF depth <= maximumDepth
                             THEN [read EXCEPT
                                      !.cumulativeDepth = float32(@ + depth),
                                      !.numPixelsCounted = @ + 1]
                             ELSE read)

\* float computeAverageDepthOfBoundingBox(box, depthMap, maximumDepth): the
\* value returned, the return statement taken and the pixels read.
computeAverageDepthOfBoundingBox(box, depthMap, maximumDepth) ==
    LET depthWidth == depthMap.width
        depthHeight == depthMap.height
    IN  IF \/ intAtLeastSize(box.x, depthWidth)
           \/ intAtLeastSize(box.y, depthHeight)
           \/ box.x + box.width <= 0
           \/ box.y + box.height <= 0
        THEN [value |-> Num(-1, 1), returnedAt |-> "clip", sampled |-> {}]
        ELSE LET x == Max(0, box.x)
                 y == Max(0, box.y)
                 clipped == Box2D(x, y, Min(depthWidth - x, box.width),
                                  Min(depthHeight - y, box.height))
                 sums == averageLoop(depthMap, clipped, maximumDepth, clipped.x, clipped.y,
                                     clipped.y * (depthMap.bytesPerRow \div 4) + clipped.x,
                                     [cumulativeDepth |-> 0, numPixelsCounted |-> 0,
                                      sampled |-> {}])
             IN  IF sums.numPixelsCounted = 0
                 THEN [value |-> Num(-1, 1), returnedAt |-> "none counted",
                       sampled |-> sums.sampled]
                 ELSE [value |-> float32Div(sums.cumulativeDepth, sums.numPixelsCounted),
                       returnedAt |-> "average", sampled |-> sums.sampled]

(***************************************************************************)
(* One call of computeAverageDepthOfBoundingBox.  The depths are 1 unit,   *)
(* FarDepth and FarDepth + 1, FarDepth a little under 2^24 units, where    *)
(* the binary32 values are one unit apart and sums of them are rounded.    *)
(* A float of row padding holds 1.  Boxes reach one pixel past each edge   *)
(* of the image.                                                           *)
(***************************************************************************)
FarDepth == 16777210

MaxBoxSideOnImage == 3

AverageDims == {<<3, 1>>, <<2, 2>>}

AverageDepthMaps ==
    UNION {LET stride == d[1] + pad
           IN  {[width |-> d[1], height |-> d[2], bytesPerRow |-> 4 * stride,
                 base |-> [i \in 0..(d[2] * stride - 1) |->
                              IF i % stride >= d[1] THEN 1
                              ELSE f[(i % stride) + (i \div stride) * d[1]]]] :
                   f \in [0..(d[1] * d[2] - 1) -> {1, FarDepth, FarDepth + 1}]}
           : d \in AverageDims, pad \in {0, 1}}

BoxesOn(depthMap) ==
    {Box2D(x, y, w, h) : x \in (-1)..depthMap.width, y \in (-1)..depthMap.height,
                         w \in 1..MaxBoxSideOnImage, h \in 1..MaxBoxSideOnImage}

InitAverage ==
    /\ occupancy = NoMap
    /\ counts = NoMap
    /\ \E m \in AverageDepthMaps :
           call \in {[op |-> "computeAverageDepthOfBoundingBox", box |-> b, depthMap |-> m,
                      maximumDepth |-> t] : b \in BoxesOn(m), t \in {0, FarDepth}}
    /\ ret = <<>>
    /\ pc = "ready"
    /\ memory = <<>>
    /\ task = <<>>

ComputeAverageDepthOfBoundingBox ==
    /\ pc = "ready"
    /\ call.op = "computeAverageDepthOfBoundingBox"
    /\ ret' = computeAverageDepthOfBoundingBox(call.box, call.depthMap, call.maximumDepth)
    /\ pc' = "done"
    /\ UNCHANGED <<occupancy, counts, call, memory, task>>

NextAverage == ComputeAverageDepthOfBoundingBox

SpecAverage == InitAverage /\ [][NextAverage]_vars

Averaged == pc = "done" /\ call.op = "computeAverageDepthOfBoundingBox"

\* The pixels of the image, and those the box has in common with it.
ImagePixels(depthMap) == (0..(depthMap.width - 1)) \X (0..(depthMap.height - 1))

CommonPixels == PixelsOf(call.box) \cap ImagePixels(call.depthMap)

\* C14: the value returned lies in [0, dmax] whenever at least one pixel
\* inside the clipped box has depth <= dmax, and is -1 otherwise, for every
\* depth image and box.
C14_MeanWithinRange ==
    Averaged =>
        LET valid == {p \in CommonPixels :
                         FloatAt(call.depthMap, p[1], p[2]) <= call.maximumDepth}
        IN  IF valid # {}
            THEN /\ 0 <= ret.value.n
                 /\ ret.value.n <= call.maximumDepth * ret.value.d
            ELSE ret.value = Num(-1, 1)

\* C15: the early return of -1 is taken only when the box and the image
\* have no pixel in common; for a box that partly overlaps the image, with
\* negative x or y too, the pixels averaged are exactly those common to the
\* box and the image.
C15_ClipsToImage ==
    Averaged =>
        /\ ret.returnedAt = "clip" => CommonPixels = {}
        /\ CommonPixels # {} => ret.sampled = CommonPixels

(***************************************************************************)
(* The cooperative task of the hoverboard firmware: util::cooperative_task *)
(* over util::time::duration.  A duration is [count, Ticks], Ticks the     *)
(* microseconds in one count of its resolution; times are microseconds.    *)
(***************************************************************************)
microseconds(count) == [count |-> count, Ticks |-> 1]

milliseconds(count) == [count |-> count, Ticks |-> 1000]

\* duration(const duration<InResolution> &delta): the conversion to Ticks
toResolution(delta, Ticks) == [count |-> (delta.count * delta.Ticks) \div Ticks, Ticks |-> Ticks]

\* duration::operator+ and operator-: computed in microseconds, the result
\* in the resolution of the left operand
durationPlus(lhs, rhs) ==
    [count |-> (lhs.count * lhs.Ticks + rhs.count * rhs.Ticks) \div lhs.Ticks, Ticks |-> lhs.Ticks]

durationMinus(lhs, rhs) ==
    [count |-> (lhs.count * lhs.Ticks - rhs.count * rhs.Ticks) \div lhs.Ticks, Ticks |-> lhs.Ticks]

\* duration::operator>=
durationAtLeast(lhs, rhs) == lhs.count * lhs.Ticks >= rhs.count * rhs.Ticks

\* cooperative_task(period, task), constructed when micros() reads `now`
cooperative_task(period, now) ==
    [m_task_cb |-> TRUE, m_period |-> toResolution(period, 1), m_delta |-> microseconds(0),
     m_last_time |-> now, m_count |-> 0]

\* cooperative_task(), constructed when micros() reads `now`
cooperative_task_default(now) ==
    [m_task_cb |-> FALSE, m_period |-> microseconds(0), m_delta |-> microseconds(0),
     m_last_time |-> now, m_count |-> 0]

\* The loop run as an if: at most one invocation
runOnce(self, delta_since_last_tick, invoked) ==
    IF durationAtLeast(self.m_delta, self.m_period)
    THEN [self |-> [self EXCEPT !.m_delta = durationMinus(@, self.m_period),
                                !.m_count = @ + 1],
          invoked |-> Append(invoked, [delta |-> delta_since_last_tick,
                                       count |-> self.m_count])]
    ELSE [self |-> self, invoked |-> invoked]

\* while (m_delta >= m_period) { m_task_cb(delta_since_last_tick, m_count);
\* m_delta -= m_period; m_count += 1; }: the task after the loop and the
\* invocations of the callback, in order.
RECURSIVE runWhileDue(_, _, _)
runWhileDue(self, delta_since_last_tick, invoked) ==
    IF durationAtLeast(self.m_delta, self.m_period)
    THEN runWhileDue([self EXCEPT !.m_delta = durationMinus(@, self.m_period),
                                  !.m_count = @ + 1],
                     delta_since_last_tick,
                     Append(invoked, [delta |-> delta_since_last_tick,
                                      count |-> self.m_count]))
    ELSE [self |-> self, invoked |-> invoked]

\* tick with the accumulator set to the time since the last tick, the time
\* left over by earlier ticks being dropped
tickDroppingRemainder(self, now_micros) ==
    IF ~self.m_task_cb THEN [self |-> self, invoked |-> <<>>]
    ELSE LET delta == microseconds(now_micros - self.m_last_time)
             stamped == [self EXCEPT !.m_delta = delta, !.m_last_time = now_micros]
         IN  runWhileDue(stamped, delta, <<>>)

\* void tick(int64_t now_micros)
tick(self, now_micros) ==
    IF ~self.m_task_cb THEN [self |-> self, invoked |-> <<>>]
    ELSE LET delta == microseconds(now_micros - self.m_last_time)
             added == [self EXCEPT !.m_delta = durationPlus(@, delta)]
             delta_since_last_tick == added.m_delta
             stamped == [added EXCEPT !.m_last_time = now_micros]
         IN  runWhileDue(stamped, delta_since_last_tick, <<>>)

(***************************************************************************)
(* A task is constructed and then ticked with the readings of a clock that *)
(* does not run backwards.  The time between two ticks is none, a third    *)
(* of a period, or about one, two or three periods; the clock is followed  *)
(* for MaxPeriods periods.  ret holds the invocations of the callback so   *)
(* far, each with the delta and the count it was given.                    *)
(***************************************************************************)
MaxPeriod == 3
MaxPeriods == 4
MaxStart == 7

Periods == {microseconds(c) : c \in 1..MaxPeriod} \cup {milliseconds(1)}

Steps(period) ==
    {0, Max(1, period \div 3), Max(1, period - 1), period, period + 1,
     2 * period, 2 * period + 1, 3 * period}

InitTask ==
    /\ occupancy = NoMap
    /\ counts = NoMap
    /\ call = [op |-> "none"]
    /\ ret = <<>>
    /\ pc = "ready"
    /\ memory = <<>>
    /\ task \in {cooperative_task(p, now) : p \in Periods, now \in {0, MaxStart}}
                \cup {cooperative_task_default(0)}

Tick ==
    \E step \in Steps(task.m_period.count) :
        LET now_micros == task.m_last_time + step
            ticked == tick(task, now_micros)
        IN  /\ now_micros <= MaxStart + MaxPeriods * task.m_period.count
            /\ task' = ticked.self
            /\ ret' = ret \o ticked.invoked
            /\ call' = [op |-> "tick", now_micros |-> now_micros]
            /\ pc' = "done"
            /\ UNCHANGED <<occupancy, counts, memory>>

NextTask == Tick

SpecTask == InitTask /\ [][NextTask]_vars

\* A step that is a call of tick on a task with a callback and a period > 0.
TickStep ==
    /\ call'.op = "tick"
    /\ task.m_task_cb
    /\ task.m_period.count > 0

\* The invocations of the callback made by the step.
InvokedBy(before, after) == SubSeq(after, Len(before) + 1, Len(after))

C17_DeltaSincePreviousTick ==
    [][TickStep =>
        \A i \in 1..Len(InvokedBy(ret, ret')) :
            InvokedBy(ret, ret')[i].delta.count * InvokedBy(ret, ret')[i].delta.Ticks
                = call'.now_micros - task.m_last_time]_vars

(***************************************************************************)
(* Whole-map transfers: updateOccupancyFromHeightMap,                      *)
(* updateOccupancyFromArray and getOccupancyArray.  A caller's array of    *)
(* `size` floats is a function on 0 .. size - 1.                           *)
(***************************************************************************)

\* The test letting every size up to numCells() through
sizeTooLarge(m, size) == size > numCells(m)

\* if (size != numCells())
sizeMismatch(m, size) == size # numCells(m)

\* void updateOccupancyFromHeightMap(heights, size, occupancyHeightThreshold)
updateOccupancyFromHeightMap(m, heights, size, occupancyHeightThreshold) ==
    IF sizeMismatch(m, size) THEN m
    ELSE [m EXCEPT !.occupancy =
             [i \in DOMAIN m.occupancy |->
                 IF i < size
                 THEN (IF heights[i] >= occupancyHeightThreshold THEN 1 ELSE 0)
                 ELSE m.occupancy[i]]]

\* void updateOccupancyFromArray(occupied, size)
updateOccupancyFromArray(m, occupied, size) ==
    IF sizeMismatch(m, size) THEN m
    ELSE [m EXCEPT !.occupancy =
             [i \in DOMAIN m.occupancy |-> IF i < size THEN occupied[i] ELSE m.occupancy[i]]]

\* void getOccupancyArray(occupied, size) const: the caller's array after the
\* call.
getOccupancyArray(m, occupied, size) ==
    IF sizeMismatch(m, size) THEN occupied
    ELSE [i \in DOMAIN occupied |-> IF i < size THEN m.occupancy[i] ELSE occupied[i]]

(***************************************************************************)
(* One call of one of the three on a map of 1, 3 or 4 cells, with an array *)
(* of 0 to MaxArray floats.  ret holds the caller's array after the call.  *)
(***************************************************************************)
MaxArray == 5

ArrayDims == {<<1, 1>>, <<3, 1>>, <<2, 2>>}

ArrayMaps ==
    UNION {LET m == PlainMap(d)
           IN  {WithOccupancy(m, v) : v \in [0..(StorageLen(m) - 1) -> {0, 1}]}
           : d \in ArrayDims}

Arrays == UNION {[0..(size - 1) -> {0, 1, 2}] : size \in 0..MaxArray}

ArraySize(a) == Cardinality(DOMAIN a)

InitArrays ==
    /\ occupancy \in ArrayMaps
    /\ counts = NoMap
    /\ call \in {[op |-> o, array |-> a, size |-> ArraySize(a), threshold |-> 2] :
                    o \in {"updateOccupancyFromHeightMap", "updateOccupancyFromArray",
                           "getOccupancyArray"},
                    a \in Arrays}
    /\ ret = <<>>
    /\ pc = "ready"
    /\ memory = <<>>
    /\ task = <<>>

UpdateOccupancyFromHeightMap ==
    /\ pc = "ready"
    /\ call.op = "updateOccupancyFromHeightMap"
    /\ occupancy' = updateOccupancyFromHeightMap(occupancy, call.array, call.size,
                                                 call.threshold)
    /\ ret' = call.array
    /\ pc' = "done"
    /\ UNCHANGED <<counts, call, memory, task>>

UpdateOccupancyFromArray ==
    /\ pc = "ready"
    /\ call.op = "updateOccupancyFromArray"
    /\ occupancy' = updateOccupancyFromArray(occupancy, call.array, call.size)
    /\ ret' = call.array
    /\ pc' = "done"
    /\ UNCHANGED <<counts, call, memory, task>>

GetOccupancyArray ==
    /\ pc = "ready"
    /\ call.op = "getOccupancyArray"
    /\ ret' = getOccupancyArray(occupancy, call.array, call.size)
    /\ pc' = "done"
    /\ UNCHANGED <<occupancy, counts, call, memory, task>>

NextArrays == UpdateOccupancyFromHeightMap \/ UpdateOccupancyFromArray \/ GetOccupancyArray

SpecArrays == InitArrays /\ [][NextArrays]_vars

ArrayOps == {"updateOccupancyFromHeightMap", "updateOccupancyFromArray", "getOccupancyArray"}

\* C18: updateOccupancyFromHeightMap, updateOccupancyFromArray and
\* getOccupancyArray called with a size different from numCells() change no
\* cell of the map and no element of the caller's array, and return.
C18_SizeMismatchIsNoOp ==
    [][(call.op \in ArrayOps /\ pc = "ready" /\ call.size # numCells(occupancy)) =>
        /\ occupancy' = occupancy
        /\ ret' = call.array
        /\ pc' = "done"]_vars

\* getOccupancyArray has returned from a call with an array one short of the
\* map, whose first element differs from the first cell of the map.
C18_Witness ==
    /\ pc = "done"
    /\ call.op = "getOccupancyArray"
    /\ call.size = numCells(occupancy) - 1
    /\ call.size > 0
    /\ ret[0] # occupancy.occupancy[0]

(***************************************************************************)
(* Copies of a map.  _occupancy is a shared_ptr<float[]>: a handle is the  *)
(* record of a map whose occupancy field holds the address of its array,   *)
(* and `memory` maps the addresses to the arrays.  Where a single map      *)
(* holds a pointer, as in the sections above, the record holds the array   *)
(* itself.                                                                 *)
(***************************************************************************)

\* The map behind a handle, with its array read from memory mem.
deref(handle, mem) == [handle EXCEPT !.occupancy = mem[handle.occupancy]]

\* OccupancyMap(width, depth, cellSide, centerPoint) with its array allocated
\* at the next address of mem: the handle and the memory after it.
allocateMap(m, mem) ==
    [handle |-> [m EXCEPT !.occupancy = Len(mem) + 1],
     memory |-> Append(mem, m.occupancy)]

\* A copy that allocates an array of its own and copies the cells into it
copyCells(rhs, mem) == allocateMap(deref(rhs, mem), mem)

\* OccupancyMap(const OccupancyMap &rhs): every member is copied, the
\* pointer _occupancy among them; no memory is allocated.
copyConstruct(rhs, mem) == [handle |-> rhs, memory |-> mem]

\* The memory after an operation wrote the cells of `after` through a handle.
store(handle, after, mem) == [mem EXCEPT ![handle.occupancy] = after.occupancy]

(***************************************************************************)
(* A map A is constructed, B is copy-constructed from it, and the update   *)
(* operations are called through either handle, before and after the copy. *)
(* occupancy holds the handle A, counts the handle B; pc is "copied" once  *)
(* B exists.                                                               *)
(***************************************************************************)
CopyDims == {<<1, 1>>, <<3, 1>>, <<2, 2>>}

InitCopy ==
    /\ \E d \in CopyDims :
           LET made == allocateMap(PlainMap(d), <<>>)
           IN  occupancy = made.handle /\ memory = made.memory
    /\ counts = NoMap
    /\ call = [op |-> "none"]
    /\ ret = <<>>
    /\ pc = "ready"
    /\ task = <<>>

CopyConstruct ==
    /\ pc = "ready"
    /\ LET copied == copyConstruct(occupancy, memory)
       IN  counts' = copied.handle /\ memory' = copied.memory
    /\ call' = [op |-> "OccupancyMap(const OccupancyMap &)"]
    /\ pc' = "copied"
    /\ UNCHANGED <<occupancy, ret, task>>

\* The handles that exist.
Handles == IF pc = "copied" THEN {"A", "B"} ELSE {"A"}

HandleOf(name) == IF name = "A" THEN occupancy ELSE counts

\* The arrays of numCells() floats a caller may pass.
CellArrays(handle) == [0..(numCells(handle) - 1) -> {0, 1}]

UpdateFromArrayThrough ==
    \E name \in Handles :
        \E occupied \in CellArrays(HandleOf(name)) :
            LET handle == HandleOf(name)
                after == updateOccupancyFromArray(deref(handle, memory), occupied,
                                                  numCells(handle))
            IN  /\ memory' = store(handle, after, memory)
                /\ call' = [op |-> "updateOccupancyFromArray", through |-> name]
                /\ UNCHANGED <<occupancy, counts, ret, pc, task>>

UpdateFromHeightMapThrough ==
    \E name \in Handles :
        \E heights \in CellArrays(HandleOf(name)) :
            LET handle == HandleOf(name)
                after == updateOccupancyFromHeightMap(deref(handle, memory), heights,
                                                      numCells(handle), 1)
            IN  /\ memory' = store(handle, after, memory)
                /\ call' = [op |-> "updateOccupancyFromHeightMap", through |-> name]
                /\ UNCHANGED <<occupancy, counts, ret, pc, task>>

UpdateFromCountsThrough ==
    \E name \in Handles :
        \E c \in CellArrays(HandleOf(name)) :
            LET handle == HandleOf(name)
                countsMap == WithOccupancy(deref(handle, memory), c)
                after == updateOccupancyFromCounts(deref(handle, memory), countsMap, 1)
            IN  /\ memory' = store(handle, after, memory)
                /\ call' = [op |-> "updateOccupancyFromCounts", through |-> name]
                /\ UNCHANGED <<occupancy, counts, ret, pc, task>>

NextCopy ==
    \/ CopyConstruct
    \/ UpdateFromArrayThrough
    \/ UpdateFromHeightMapThrough
    \/ UpdateFromCountsThrough

SpecCopy == InitCopy /\ [][NextCopy]_vars

\* at(cell) through a handle
atThrough(handle, cell) == atCell(deref(handle, memory), cell)

\* C19: once B is copy-constructed from A, after any sequence of update
\* operations applied through either handle, A.at(c) equals B.at(c) for
\* every cell c.
C19_CopySharesCells ==
    pc = "copied" =>
        \A c \in Cells(occupancy) : atThrough(occupancy, c) = atThrough(counts, c)

\* An update through A after the copy has left occupied and free cells, and
\* B reads both kinds.
C19_Witness ==
    /\ pc = "copied"
    /\ call.op = "updateOccupancyFromArray"
    /\ call.through = "A"
    /\ \E c, e \in Cells(counts) : atThrough(counts, c) = 1 /\ atThrough(counts, e) = 0

(***************************************************************************)
(* The footprint side length: computeFootprintSideLengthInCells on maps of *)
(* several sizes and cell sides, for radii from 0 to beyond the map.       *)
(***************************************************************************)
\* the largest robot radius, in the unit of the world lengths
MaxRadius == 12

FootprintDims == {<<1, 1>>, <<2, 1>>, <<2, 2>>, <<3, 3>>, <<4, 2>>, <<5, 5>>, <<7, 1>>}

FootprintCellSides == {2, 5}

FootprintMaps ==
    {OccupancyMap(s * d[1], s * d[2], s, simd_make_float3(c, 0, 0)) :
        d \in FootprintDims, s \in FootprintCellSides, c \in {0, 3}}

InitFootprint ==
    /\ occupancy \in FootprintMaps
    /\ counts = NoMap
    /\ call \in {[op |-> "computeFootprintSideLengthInCells", robotRadius |-> r] :
                    r \in 0..MaxRadius}
    /\ ret = 0
    /\ pc = "ready"
    /\ memory = <<>>
    /\ task = <<>>

ComputeFootprintSideLengthInCells ==
    /\ pc = "ready"
    /\ ret' = computeFootprintSideLengthInCells(occupancy, call.robotRadius)
    /\ pc' = "done"
    /\ UNCHANGED <<occupancy, counts, call, memory, task>>

NextFootprint == ComputeFootprintSideLengthInCells

SpecFootprint == InitFootprint /\ [][NextFootprint]_vars

Ceil(n, d) == -Floor(-n, d)

\* The cells from the centre cell to the last cell of a row.
cellsRightOfCentre(m) == m.cellsWide - 1 - centerCell(m).cellX

AxisAligned(s) ==
    /\ s.stepX = 0 \/ s.stepZ = 0
    /\ <<s.x, s.z>> # <<s.xEnd - s.stepX, s.zEnd - s.stepZ>>

\* The cells of the row or column from the start cell to the end cell.
CellsBetween(s) ==
    {<<x, z>> : x \in Min(s.x, s.xEnd - s.stepX)..Max(s.x, s.xEnd - s.stepX),
                z \in Min(s.z, s.zEnd - s.stepZ)..Max(s.z, s.zEnd - s.stepZ)}

\* C22: for an axis-aligned segment whose start cell differs from its end
\* cell, isLineUnobstructed reads every cell from the start cell to the end
\* cell and returns false if any of them is occupied.
C22_AxisAlignedReadsEveryCell ==
    LET s == rayStart(occupancy, call.from, call.to)
    IN  (/\ LineDone
         /\ InsideGrid(occupancy, call.from) /\ InsideGrid(occupancy, call.to)
         /\ AxisAligned(s))
        => /\ (\E c \in CellsBetween(s) : atInt(occupancy, c[1], c[2]) # 0) => ret = FALSE
           /\ ret = TRUE =>
                  CellsBetween(s) =
                      {lineTraversal(occupancy, call.from, call.to).visited[i] :
                          i \in 1..Len(lineTraversal(occupancy, call.from, call.to).visited)}

(***************************************************************************)
(* The trace from src back to dest (the code of findPath from the label    *)
(* foundCompletePath on) applied to the predecessor map the search built,  *)
(* whole or with the entry of one cell lost.                               *)
(***************************************************************************)
TraceDims == {<<2, 2>>, <<3, 3>>, <<4, 1>>}

TraceMaps ==
    UNION {LET m == OccupancyMap(PathCellSide * d[1], PathCellSide * d[2],
                                 PathCellSide, simd_make_float3(2, 0, -2))
           IN  {WithOccupancy(m, v) : v \in SparseStorage(m, 1)}
           : d \in TraceDims}

\* The predecessor map without the entries of the cells in `lost`.
withoutLinks(transitions, lost) ==
    [c \in (DOMAIN transitions) \ lost |-> transitions[c]]

InitTrace ==
    /\ occupancy \in TraceMaps
    /\ counts = NoMap
    /\ \E src \in Cells(occupancy), dest \in Cells(occupancy) :
           LET r == searchFrontier(occupancy, 1, src, <<dest>>, (dest :> dest))
           IN  /\ atCell(occupancy, dest) = 0
               /\ dest # src
               /\ r.found
               /\ call \in {[op |-> "foundCompletePath", src |-> src, dest |-> dest,
                             transitions |-> withoutLinks(r.transitions, lost)] :
                               lost \in {{}} \cup {{c} : c \in DOMAIN r.transitions}}
    /\ ret = <<>>
    /\ pc = "ready"
    /\ memory = <<>>
    /\ task = <<>>

FoundCompletePath ==
    /\ pc = "ready"
    /\ ret' = foundCompletePath(call.transitions, call.src, call.dest)
    /\ pc' = "done"
    /\ UNCHANGED <<occupancy, counts, call, memory, task>>

NextTrace == FoundCompletePath

SpecTrace == InitTrace /\ [][NextTrace]_vars

\* `transitions.find(currentStep) == transitions.end()` holds for some cell of
\* the chain followed from the cell c until dest.
RECURSIVE missingLink(_, _, _)
missingLink(transitions, dest, c) ==
    \/ c \notin DOMAIN transitions
    \/ (transitions[c] # dest /\ missingLink(transitions, dest, transitions[c]))

CellsOnLeg(m, a, b) ==
    {c \in Cells(m) :
        /\ Min(a.cellX, b.cellX) <= c.cellX /\ c.cellX <= Max(a.cellX, b.cellX)
        /\ Min(a.cellZ, b.cellZ) <= c.cellZ /\ c.cellZ <= Max(a.cellZ, b.cellZ)}

\* The waypoints of the path and the cells between consecutive waypoints.
CellsTraversed(m, path) ==
    {path[i] : i \in 1..Len(path)}
        \cup UNION {CellsOnLeg(m, path[i], path[i + 1]) : i \in 1..(Len(path) - 1)}

\* C24: every cell a non-empty findPath result traverses, dest excepted, is
\* safe for the footprint (the L x L block centred on it, clipped to the
\* grid, holds no occupied cell), and dest is unoccupied.
C24_SafeExceptDest ==
    (PathDone /\ ret # <<>>) =>
        /\ \A c \in CellsTraversed(occupancy, ret) \ {PathDest} :
               FootprintFree(occupancy, c, PathSide)
        /\ atCell(occupancy, PathDest) = 0

\* C24 as stated: every cell traversed, src and dest included, is safe for
\* the footprint.
C24_SafeEverywhere ==
    (PathDone /\ ret # <<>>) =>
        \A c \in CellsTraversed(occupancy, ret) :
            FootprintFree(occupancy, c, PathSide)

\* A path of several cells for the robot of side 3 that ends in a cell with
\* an occupied cell inside its footprint.
C24_Witness ==
    /\ PathDone
    /\ Len(ret) >= 2
    /\ PathSide = 3
    /\ Cardinality(CellsTraversed(occupancy, ret)) >= 3
    /\ ~FootprintFree(occupancy, PathDest, PathSide)

(***************************************************************************)
(* linearIndex on grids of every width and depth up to MaxCells.           *)
(***************************************************************************)
\* the largest number of cells along one axis of a grid
MaxCells == 4

InitIndex ==
    /\ \E cellsWide \in 1..MaxCells, cellsDeep \in 1..MaxCells :
           occupancy = OccupancyMap(cellsWide, cellsDeep, 1, simd_make_float3(0, 0, 0))
    /\ counts = NoMap
    /\ call \in {[op |-> "linearIndex", cell |-> c] : c \in Cells(occupancy)}
    /\ ret = 0
    /\ pc = "ready"
    /\ memory = <<>>
    /\ task = <<>>

LinearIndex ==
    /\ pc = "ready"
    /\ ret' = linearIndex(occupancy, call.cell.cellX, call.cell.cellZ)
    /\ pc' = "done"
    /\ UNCHANGED <<occupancy, counts, call, memory, task>>

NextIndex == LinearIndex

SpecIndex == InitIndex /\ [][NextIndex]_vars

\* C25: on a grid of any width and depth linearIndex gives every cell of the
\* grid an index in [0, Nx * Nz), and no two cells the same index.
C25_IndexInRangeAndInjective ==
    pc = "done" =>
        /\ 0 <= ret /\ ret < numCells(occupancy)
        /\ \A c \in Cells(occupancy) \ {call.cell} :
               linearIndex(occupancy, c.cellX, c.cellZ) # ret

\* The pixels of the mask whose byte reaches the threshold.
HumanPixels(segmentationMap, minimumConfidence) ==
    {p \in (0..(segmentationMap.width - 1)) \X (0..(segmentationMap.height - 1)) :
        segmentationMap.base[p[2] * segmentationMap.bytesPerRow + p[1]] >= minimumConfidence}

\* The pixel (x, y) lies inside the box.
InsideBox(box, p) ==
    /\ box.x <= p[1] /\ p[1] < box.x + box.width
    /\ box.y <= p[2] /\ p[2] < box.y + box.height

\* C26: every mask pixel at or above the threshold lies inside at least one
\* of the boxes findHumans returns.
C26_EveryHumanPixelBoxed ==
    FoundHumans =>
        \A p \in HumanPixels(call.segmentationMap, call.minimumConfidence) :
            \E i \in 1..Len(ret) : InsideBox(ret[i], p)

(***************************************************************************)
(* The length of a path and the length of a shortest route.                *)
(***************************************************************************)
Manhattan(a, b) == Abs(a.cellX - b.cellX) + Abs(a.cellZ - b.cellZ)

\* The sum of the Manhattan distances between consecutive waypoints.
RECURSIVE PathLength(_)
PathLength(path) ==
    IF Len(path) <= 1 THEN 0
    ELSE Manhattan(path[1], path[2]) + PathLength(Tail(path))

\* The number of 4-connected steps of a shortest chain of cells of `safe`
\* from a cell of S to the cell src, S being the cells n steps from dest;
\* -1 when there is none.
RECURSIVE StepsFrom(_, _, _, _, _)
StepsFrom(safe, src, S, seen, n) ==
    IF src \in S THEN n
    ELSE LET more == {c \in safe \ seen : \E d \in S : Adjacent(c, d)}
         IN  IF more = {} THEN -1
             ELSE StepsFrom(safe, src, more, seen \cup more, n + 1)

\* The least number of steps from src to dest over the routes whose cells
\* other than dest all have a free footprint.
ShortestSteps(m, side, src, dest) ==
    StepsFrom({c \in Cells(m) : FootprintFree(m, c, side)}, src, {dest}, {dest}, 0)

\* C27: a non-empty findPath result is a shortest route: the Manhattan
\* distances between its consecutive waypoints add up to the least number of
\* 4-connected steps from src to dest over the routes whose cells other
\* than dest are all safe for the footprint.
C27_ShortestRoute ==
    (PathDone /\ ret # <<>>) =>
        PathLength(ret) = ShortestSteps(occupancy, PathSide, PathSrc, PathDest)

\* A path that goes round an obstacle: it is longer than the Manhattan
\* distance from src to dest.
C27_Witness ==
    /\ PathDone
    /\ ret # <<>>
    /\ PathLength(ret) > Manhattan(PathSrc, PathDest)
    /\ PathLength(ret) = ShortestSteps(occupancy, PathSide, PathSrc, PathDest)

\* The time the task has accounted for when it was last ticked: one period
\* for every invocation of the callback so far, and the accumulator.
accountedTime == Len(ret) * task.m_period.count + task.m_delta.count

\* C28: for a task with a callback and a period P > 0, ticked with
\* timestamps that do not decrease, after every tick (number of invocations
\* so far) * P + accumulator = (timestamp of the latest tick) - (timestamp
\* of the construction), and 0 <= accumulator < P.  The task is constructed
\* with no invocation, an empty accumulator and its timestamp in
\* m_last_time; every tick then adds to the accounted time the time by
\* which it moves m_last_time, to its own timestamp.
C28_ElapsedTimeAccounted ==
    /\ (task.m_task_cb /\ task.m_period.count > 0) => accountedTime = 0
    /\ [][TickStep =>
            /\ task'.m_last_time = call'.now_micros
            /\ accountedTime' - accountedTime = task'.m_last_time - task.m_last_time
            /\ 0 <= task'.m_delta.count
            /\ task'.m_delta.count < task'.m_period.count
            /\ task'.m_period = task.m_period]_vars

\* A task of period 2 constructed at MaxStart and last ticked 7 microseconds
\* later: three invocations and 1 microsecond in the accumulator.
C28_Witness ==
    /\ pc = "done"
    /\ call.op = "tick"
    /\ task.m_task_cb
    /\ task.m_period.count = 2
    /\ task.m_last_time = MaxStart + 7
    /\ call.now_micros = task.m_last_time
    /\ Len(ret) = 3
    /\ task.m_delta.count = 1

(***************************************************************************)
(* One call of tick, statement by statement: the statements before the     *)
(* loop, then one action for every pass of `while (m_delta >= m_period)`   *)
(* and one for leaving it.  memory holds the local delta_since_last_tick,  *)
(* ret the latest invocation of the callback.  m_count is an unsigned      *)
(* integer that wraps round; the model keeps CountBits bits of it, more    *)
(* than any tick of a task with a period above zero uses here.  The tick   *)
(* comes up to MaxDelta microseconds, or one or two periods, after the     *)
(* construction.  The thread that called tick goes on to its next          *)
(* statement until tick returns, which is the weak fairness of the         *)
(* specification.                                                          *)
(***************************************************************************)
\* the bits kept of m_count
CountBits == 4

\* the largest time from the construction of the task to the tick, in
\* microseconds, for every period
MaxDelta == 9

TickPeriods == {microseconds(c) : c \in 0..MaxPeriod} \cup {milliseconds(1)}

TickDeltas(period) == (-1..MaxDelta) \cup {period, 2 * period + 1}

InitTickLoop ==
    /\ occupancy = NoMap
    /\ counts = NoMap
    /\ task \in {cooperative_task(p, now) : p \in TickPeriods, now \in {0, MaxStart}}
                \cup {cooperative_task_default(0)}
    /\ call \in {[op |-> "tick", now_micros |-> task.m_last_time + d] :
                    d \in TickDeltas(task.m_period.count)}
    /\ ret = <<>>
    /\ pc = "ready"
    /\ memory = <<>>

\* tick from its first statement to the test of the loop
EnterTick ==
    /\ pc = "ready"
    /\ IF ~task.m_task_cb
       THEN /\ pc' = "done"
            /\ UNCHANGED <<task, memory>>
       ELSE LET delta == microseconds(call.now_micros - task.m_last_time)
                added == [task EXCEPT !.m_delta = durationPlus(@, delta)]
            IN  /\ memory' = [delta_since_last_tick |-> added.m_delta]
                /\ task' = [added EXCEPT !.m_last_time = call.now_micros]
                /\ pc' = "loop"
    /\ UNCHANGED <<occupancy, counts, call, ret>>

\* one pass of the body of the loop
LoopBody ==
    /\ pc = "loop"
    /\ durationAtLeast(task.m_delta, task.m_period)
    /\ ret' = <<[delta |-> memory.delta_since_last_tick, count |-> task.m_count]>>
    /\ task' = [task EXCEPT !.m_delta = durationMinus(@, task.m_period),
                            !.m_count = (@ + 1) % (2 ^ CountBits)]
    /\ UNCHANGED <<occupancy, counts, call, pc, memory>>

\* the test of the loop fails and tick returns
LoopExit ==
    /\ pc = "loop"
    /\ ~durationAtLeast(task.m_delta, task.m_period)
    /\ pc' = "done"
    /\ UNCHANGED <<occupancy, counts, call, ret, memory, task>>

NextTickLoop == EnterTick \/ LoopBody \/ LoopExit

SpecTickLoop == InitTickLoop /\ [][NextTickLoop]_vars /\ WF_vars(NextTickLoop)

\* C29: every call of tick(now) terminates, for a default-constructed task
\* and for a task with a callback and any period >= 0, the period 0
\* included.
C29_TickTerminates == <>(pc = "done")

(***************************************************************************)
(* isLineUnobstructed pass by pass, from the entry of its do-while loop:    *)
(* one action for every pass.  memory holds the locals of the function as  *)
(* the statements before the loop set them, with the cells read so far in  *)
(* `visited`.  The calling thread goes on until the function returns,      *)
(* which is the weak fairness of the specification.                        *)
(***************************************************************************)
\* The body of the do-while loop after the test of the cell: the locals
\* after `x += stepX; tMaxX += tDeltaX` or `z += stepZ; tMaxZ += tDeltaZ`.
traverseStep(s) ==
    IF FloatLess(s.tMaxX, s.tMaxZ)
    THEN [s EXCEPT !.x = s.x + s.stepX, !.tMaxX = FloatAdd(s.tMaxX, s.tDeltaX)]
    ELSE [s EXCEPT !.z = s.z + s.stepZ, !.tMaxZ = FloatAdd(s.tMaxZ, s.tDeltaZ)]

\* isLineUnobstructed at the entry of its loop, for the maps and the end
\* points of InitLine; no result is returned yet (ret is FALSE until then).
InitRay ==
    /\ occupancy \in LineMaps
    /\ counts = NoMap
    /\ call \in {[op |-> "isLineUnobstructed", from |-> f, to |-> t] :
                    f \in LinePositions(occupancy), t \in LinePositions(occupancy)}
    /\ ret = FALSE
    /\ pc = "loop"
    /\ memory = rayStart(occupancy, call.from, call.to)
    /\ task = <<>>

\* one pass of the do-while loop
LoopPass ==
    /\ pc = "loop"
    /\ LET read == [memory EXCEPT !.visited = Append(@, <<memory.x, memory.z>>)]
           moved == traverseStep(read)
       IN  IF atInt(occupancy, memory.x, memory.z) # 0
           THEN /\ ret' = FALSE
                /\ memory' = read
                /\ pc' = "done"
           ELSE IF traversalContinues(moved.x, moved.z, moved.xEnd, moved.zEnd)
                THEN /\ memory' = moved
                     /\ UNCHANGED <<ret, pc>>
                ELSE /\ ret' = TRUE
                     /\ memory' = moved
                     /\ pc' = "done"
    /\ UNCHANGED <<occupancy, counts, call, task>>

NextRay == LoopPass

SpecRay == InitRay /\ [][NextRay]_vars /\ WF_vars(NextRay)

\* Exactly one of the two cell indices has moved, by one step, towards its
\* end sentinel.
MovesOneIndex(s, t) ==
    \/ /\ t.z = s.z
       /\ Abs(t.x - s.x) = 1
       /\ Abs(s.xEnd - t.x) < Abs(s.xEnd - s.x)
    \/ /\ t.x = s.x
       /\ Abs(t.z - s.z) = 1
       /\ Abs(s.zEnd - t.z) < Abs(s.zEnd - s.z)

\* |xEnd - x0| + |zEnd - z0|, (x0, z0) being the first cell read.
SentinelDistance(s) ==
    Abs(s.xEnd - s.visited[1][1]) + Abs(s.zEnd - s.visited[1][2])

\* Every cell index read is at least 0 and at most Nx (resp. Nz).
IndicesReadInRange ==
    /\ \A i \in 1..Len(memory.visited) :
           /\ 0 <= memory.visited[i][1] /\ memory.visited[i][1] <= occupancy.cellsWide
           /\ 0 <= memory.visited[i][2] /\ memory.visited[i][2] <= occupancy.cellsDeep
    /\ pc = "loop" =>
           /\ 0 <= memory.x /\ memory.x <= occupancy.cellsWide
           /\ 0 <= memory.z /\ memory.z <= occupancy.cellsDeep

\* C30: the traversal loop of isLineUnobstructed terminates for every pair of
\* endpoints: every pass that is followed by another moves exactly one of
\* the cell indices one step towards its end sentinel, the loop runs at
\* least once and at most max(1, |xEnd - x0| + |zEnd - z0|) times, and every
\* cell index it reads is at least 0 and at most Nx (resp. Nz).
C30_LoopTerminates ==
    /\ <>(pc = "done")
    /\ [][(pc = "loop" /\ pc' = "loop") => MovesOneIndex(memory, memory')]_vars
    /\ [](pc = "done" =>
            /\ 1 <= Len(memory.visited)
            /\ Len(memory.visited) <= Max(1, SentinelDistance(memory)))
    /\ []IndicesReadInRange

\* C30 as stated: every pass (one that finds its cell free and goes on to
\* the step) moves exactly one of the cell indices one step towards its end
\* sentinel, and the loop runs at most |xEnd - x0| + |zEnd - z0| times.
C30_EveryPassMoves ==
    /\ <>(pc = "done")
    /\ [][(pc = "loop" /\ (pc' = "loop" \/ ret' = TRUE))
            => MovesOneIndex(memory, memory')]_vars
    /\ [](pc = "done" =>
            /\ 1 <= Len(memory.visited)
            /\ Len(memory.visited) <= SentinelDistance(memory))
    /\ []IndicesReadInRange

\* A traversal of several passes that changed both indices and read the
\* index Nx, one beyond the last column.
C30_Witness ==
    /\ pc = "done"
    /\ Len(memory.visited) >= 3
    /\ \E i, j \in 1..Len(memory.visited) :
           /\ memory.visited[i][1] # memory.visited[j][1]
           /\ memory.visited[i][2] # memory.visited[j][2]
    /\ \E i \in 1..Len(memory.visited) : memory.visited[i][1] = occupancy.cellsWide

=============================================================================
